---- MODULE Spec2Model ----
(***************************************************************************)
(* A model of the deployment orchestration scripts of az-reader (ops/):    *)
(*   - run_logged, the command executor of _utils.py        (SpecExec)     *)
(*   - _set_tfvar_value, the tfvars patcher of _deploy_common.py           *)
(*                                                           (SpecPatch)   *)
(*   - deploy_bootstrap / deploy_workload, the two stack workflows         *)
(*                                                           (SpecDeploy)  *)
(*   - ensure_tfvars, the seeding of a variable file         (SpecSeed)    *)
(*   - manage_tokens, the token registry                     (SpecTokens)  *)
(*   - the three scripts run one after the other             (SpecEngine)  *)
(*   - azure_context, the identity resolver                  (SpecIdentity)*)
(*   - the two stack workflows started with a partial identity in the      *)
(*     environment                                           (SpecRun)     *)
(* Text is a sequence of tokens.  A token is one character with a meaning  *)
(* for the code (" ", "=", "#", the double quote, the line break) or an    *)
(* opaque non-empty run of other characters ("a", "subscription_id").      *)
(***************************************************************************)
EXTENDS Integers, Sequences, FiniteSets, TLC

VARIABLES
  \* ---- run_logged ----
  cmd_list,        \* the argument vector
  capture_output,  \* keyword argument capture_output
  check,           \* keyword argument check
  echo,            \* keyword argument echo
  script,          \* what the child process does: lines per stream, exit code
  proc,            \* the child process: state and lines written per stream
  pipe,            \* lines in flight in the stdout / stderr pipe
  buffer,          \* stdout_buf / stderr_buf
  rpc,             \* position of each _reader thread
  terminal,        \* what reached sys.stdout / sys.stderr, in order
  mpc,             \* position of the calling thread in run_logged
  returncode,      \* the local returncode, Nothing until proc.wait() returns
  outcome,         \* the CompletedProcess returned or CalledProcessError raised
  \* ---- _set_tfvar_value applied to one variable file ----
  content,         \* the text of the file
  patches,         \* the upserts applied so far: [before, key, value]
  \* ---- deploy_bootstrap / deploy_workload ----
  workflow,        \* the script that runs: "none", "bootstrap", "workload"
  dpc,             \* its position
  runs,            \* scripts started so far
  argv,            \* the command line of the run: local_docker, registry_login_server
  shell_env,       \* the environment the operator starts scripts with
  environ,         \* os.environ of the running script
  ctx,             \* the AzureContext of deploy_*, Nothing until resolved
  files,           \* the stack directories: file name -> Nothing or Some(text)
  state_file,      \* whether 00-bootstrap/.state/<env>/bootstrap.tfstate exists
  outputs,         \* what terraform output -json gave for the bootstrap stack
  bootstrap_state, \* the BootstrapState of the run, Nothing until mapped
  bp,              \* build_and_push's locals: login_server, full_image
  cmds,            \* the external commands the run has issued, in order
  exits,           \* the exit code of each of them: 0 or 1 (any nonzero code)
  failure,         \* the exception that ended the run, Nothing otherwise
  \* ---- ensure_tfvars called repeatedly on one stack directory ----
  seed_files,      \* the stack directory: file name -> Nothing or Some(text)
  seed_log,        \* the calls so far: [before, ctx, after, error]
  \* ---- manage_tokens ----
  tpc,             \* position of the script
  tpool,           \* the command lines the operator may use
  targs,           \* the command line: add, remove, generate, list_only
  secret,          \* the value of the Key Vault secret, Nothing when absent
  tokens,          \* the dict tokens: name -> value
  loaded,          \* what _load_tokens returned
  generated,       \* the names of the dict generated, in insertion order
  listed,          \* the lines printed by --list
  tcmds,           \* the external commands the script has issued, in order
  texits,          \* the exit code of each of them: 0 or 1 (any nonzero code)
  tfailure         \* the exception that ended the script, Nothing otherwise

execVars == <<cmd_list, capture_output, check, echo, script, proc, pipe, buffer,
              rpc, terminal, mpc, returncode, outcome>>

patchVars == <<content, patches>>

deployVars == <<workflow, dpc, runs, argv, shell_env, environ, ctx, files,
                state_file, outputs, bootstrap_state, bp, cmds, exits, failure>>

seedVars == <<seed_files, seed_log>>

tokenVars == <<tpc, tpool, targs, secret, tokens, loaded, generated, listed,
               tcmds, texits, tfailure>>

nonExecVars == <<patchVars, deployVars, seedVars, tokenVars>>
nonPatchVars == <<execVars, deployVars, seedVars, tokenVars>>
nonDeployVars == <<execVars, patchVars, seedVars, tokenVars>>
nonSeedVars == <<execVars, patchVars, deployVars, tokenVars>>
\* manage_tokens is one more script the operator starts; it reads the
\* operator's environment and seeds the workload variable file: of the other
\* parts it changes runs and files only
nonTokenVars == <<execVars, patchVars, seedVars, workflow, dpc, argv, shell_env,
                  environ, ctx, state_file, outputs, bootstrap_state, bp, cmds, exits,
                  failure>>

vars == <<execVars, patchVars, deployVars, seedVars, tokenVars>>

(***************************************************************************)
(* Generic helpers                                                         *)
(***************************************************************************)
\* Python's None / a present value, both as tuples so that they compare.
Nothing == <<>>
Some(x) == <<x>>

NL == "\n"

RECURSIVE Flatten(_)
\* "".join(parts)
Flatten(parts) ==
  IF parts = <<>> THEN <<>> ELSE Head(parts) \o Flatten(Tail(parts))

SeqsUpTo(S, n) == UNION {[1..k -> S] : k \in 0..n}

Tagged(fd, lines) == [i \in 1..Len(lines) |-> <<fd, lines[i]>>]

(***************************************************************************)
(* run_logged                                                              *)
(***************************************************************************)
MaxProcLines == 2
PipeCap == 1

Streams == {"stdout", "stderr"}
EchoPolicies == {"always", "on_error", "never"}
ExitCodes == {0, 1}
Commands == {<<"terraform", "output", "-json">>}
StdoutLines == {<<"A", NL>>, <<"C", NL>>}
StderrLines == {<<"B", NL>>}

Scripts ==
  [stdout : SeqsUpTo(StdoutLines, MaxProcLines),
   stderr : SeqsUpTo(StderrLines, MaxProcLines),
   rc : ExitCodes]

ExecIdle ==
  /\ proc = [state |-> "none", pos |-> [s \in Streams |-> 0]]
  /\ pipe = [s \in Streams |-> <<>>]
  /\ buffer = [s \in Streams |-> <<>>]
  /\ rpc = [s \in Streams |-> "unstarted"]
  /\ terminal = <<>>
  /\ mpc = "call"
  /\ returncode = Nothing
  /\ outcome = Nothing

\* the executor's inputs while another part of the system is studied
ExecParked ==
  /\ cmd_list = <<>>
  /\ capture_output = FALSE
  /\ check = FALSE
  /\ echo = "always"
  /\ script = [stdout |-> <<>>, stderr |-> <<>>, rc |-> 0]

ExecInit ==
  /\ cmd_list \in Commands
  /\ capture_output \in BOOLEAN
  /\ check \in BOOLEAN
  /\ echo \in EchoPolicies
  /\ script \in Scripts
  /\ ExecIdle

CompletedProcess(args, rc, out, err) ==
  [kind |-> "CompletedProcess", args |-> args, returncode |-> rc,
   stdout |-> out, stderr |-> err]

CalledProcessError(rc, cmd, out, err) ==
  [kind |-> "CalledProcessError", args |-> cmd, returncode |-> rc,
   stdout |-> out, stderr |-> err]

\* ---- the child process ----
ProcWrite(s) ==
  /\ proc.state = "running"
  /\ proc.pos[s] < Len(script[s])
  /\ LET line == script[s][proc.pos[s] + 1]
     IN  IF capture_output
         THEN /\ Len(pipe[s]) < PipeCap
              /\ pipe' = [pipe EXCEPT ![s] = Append(@, line)]
              /\ UNCHANGED terminal
         ELSE /\ terminal' = Append(terminal, <<s, line>>)
              /\ UNCHANGED pipe
  /\ proc' = [proc EXCEPT !.pos[s] = @ + 1]
  /\ UNCHANGED <<nonExecVars, cmd_list, capture_output, check, echo, script, buffer, rpc,
                 mpc, returncode, outcome>>

ProcExit ==
  /\ proc.state = "running"
  /\ \A s \in Streams : proc.pos[s] = Len(script[s])
  /\ proc' = [proc EXCEPT !.state = "exited"]
  /\ UNCHANGED <<nonExecVars, cmd_list, capture_output, check, echo, script, pipe, buffer,
                 rpc, terminal, mpc, returncode, outcome>>

\* ---- capture_output = False: subprocess.run ----
RunUncaptured ==
  /\ mpc = "call"
  /\ ~capture_output
  /\ proc' = [proc EXCEPT !.state = "running"]
  /\ mpc' = "run"
  /\ UNCHANGED <<nonExecVars, cmd_list, capture_output, check, echo, script, pipe, buffer,
                 rpc, terminal, returncode, outcome>>

RunUncapturedDone ==
  /\ mpc = "run"
  /\ proc.state = "exited"
  /\ returncode' = Some(script.rc)
  /\ IF check /\ script.rc # 0
     THEN /\ outcome' = Some(CalledProcessError(script.rc, cmd_list, Nothing, Nothing))
          /\ mpc' = "raised"
     ELSE /\ outcome' = Some(CompletedProcess(cmd_list, script.rc, Nothing, Nothing))
          /\ mpc' = "returned"
  /\ UNCHANGED <<nonExecVars, cmd_list, capture_output, check, echo, script, proc, pipe,
                 buffer, rpc, terminal>>

\* ---- capture_output = True ----
Popen ==
  /\ mpc = "call"
  /\ capture_output
  /\ proc' = [proc EXCEPT !.state = "running"]
  /\ mpc' = "start"
  /\ UNCHANGED <<nonExecVars, cmd_list, capture_output, check, echo, script, pipe, buffer,
                 rpc, terminal, returncode, outcome>>

\* for thread in threads: thread.start()   (stdout's reader first)
StartThread ==
  /\ mpc = "start"
  /\ LET s == IF rpc["stdout"] = "unstarted" THEN "stdout" ELSE "stderr"
     IN  /\ rpc' = [rpc EXCEPT ![s] = "read"]
         /\ mpc' = IF s = "stderr" THEN "wait" ELSE "start"
  /\ UNCHANGED <<nonExecVars, cmd_list, capture_output, check, echo, script, proc, pipe,
                 buffer, terminal, returncode, outcome>>

\* if echo == "always"
EchoLive == echo = "always"

\* line = stream.readline(); buffer.append(line)
ReaderRead(s) ==
  /\ rpc[s] = "read"
  /\ pipe[s] # <<>>
  /\ buffer' = [buffer EXCEPT ![s] = Append(@, Head(pipe[s]))]
  /\ pipe' = [pipe EXCEPT ![s] = Tail(@)]
  /\ rpc' = [rpc EXCEPT ![s] = IF EchoLive THEN "echo" ELSE "read"]
  /\ UNCHANGED <<nonExecVars, cmd_list, capture_output, check, echo, script, proc, terminal,
                 mpc, returncode, outcome>>

\* writer.write(line); writer.flush()
ReaderEcho(s) ==
  /\ rpc[s] = "echo"
  /\ terminal' = Append(terminal, <<s, buffer[s][Len(buffer[s])]>>)
  /\ rpc' = [rpc EXCEPT ![s] = "read"]
  /\ UNCHANGED <<nonExecVars, cmd_list, capture_output, check, echo, script, proc, pipe,
                 buffer, mpc, returncode, outcome>>

\* readline() returns "": the pipe is empty and its write end is closed
ReaderEof(s) ==
  /\ rpc[s] = "read"
  /\ pipe[s] = <<>>
  /\ proc.state = "exited"
  /\ rpc' = [rpc EXCEPT ![s] = "done"]
  /\ UNCHANGED <<nonExecVars, cmd_list, capture_output, check, echo, script, proc, pipe,
                 buffer, terminal, mpc, returncode, outcome>>

WaitEarly ==
  /\ mpc = "wait"
  /\ returncode' = Some(script.rc)
  /\ mpc' = "join"
  /\ UNCHANGED <<nonExecVars, cmd_list, capture_output, check, echo, script, proc, pipe,
                 buffer, rpc, terminal, outcome>>

\* returncode = proc.wait()
Wait ==
  /\ mpc = "wait"
  /\ proc.state = "exited"
  /\ returncode' = Some(script.rc)
  /\ mpc' = "join"
  /\ UNCHANGED <<nonExecVars, cmd_list, capture_output, check, echo, script, proc, pipe,
                 buffer, rpc, terminal, outcome>>

ThreadJoinedNoWait(s) == TRUE
\* thread.join() returns
ThreadJoined(s) == rpc[s] = "done"

\* for thread in threads: thread.join()
JoinThreads ==
  /\ mpc = "join"
  /\ \A s \in Streams : ThreadJoined(s)
  /\ mpc' = "replay"
  /\ UNCHANGED <<nonExecVars, cmd_list, capture_output, check, echo, script, proc, pipe,
                 buffer, rpc, terminal, returncode, outcome>>

\* if echo == "on_error" and returncode != 0
ReplayNeeded == echo = "on_error" /\ returncode # Some(0)

ReplayTextStderrFirst ==
  Tagged("stderr", buffer["stderr"]) \o Tagged("stdout", buffer["stdout"])
\* sys.stdout.writelines(stdout_buf); sys.stderr.writelines(stderr_buf)
ReplayText ==
  Tagged("stdout", buffer["stdout"]) \o Tagged("stderr", buffer["stderr"])

Replay ==
  /\ mpc = "replay"
  /\ terminal' = IF ReplayNeeded THEN terminal \o ReplayText ELSE terminal
  /\ mpc' = "complete"
  /\ UNCHANGED <<nonExecVars, cmd_list, capture_output, check, echo, script, proc, pipe,
                 buffer, rpc, returncode, outcome>>

CapturedFailureNoText(rc) == CalledProcessError(rc, cmd_list, Nothing, Nothing)
\* raise subprocess.CalledProcessError(returncode, cmd_list, output=..., stderr=...)
CapturedFailure(rc) ==
  CalledProcessError(rc, cmd_list, Some(Flatten(buffer["stdout"])),
                     Some(Flatten(buffer["stderr"])))

CapturedResultUnjoined(rc) ==
  CompletedProcess(cmd_list, rc, Some(buffer["stdout"]), Some(buffer["stderr"]))
\* completed = subprocess.CompletedProcess(cmd_list, returncode, stdout=..., stderr=...)
CapturedResult(rc) ==
  CompletedProcess(cmd_list, rc, Some(Flatten(buffer["stdout"])),
                   Some(Flatten(buffer["stderr"])))

Complete ==
  /\ mpc = "complete"
  /\ LET rc == returncode[1]
     IN  IF check /\ rc # 0
         THEN /\ outcome' = Some(CapturedFailure(rc))
              /\ mpc' = "raised"
         ELSE /\ outcome' = Some(CapturedResult(rc))
              /\ mpc' = "returned"
  /\ UNCHANGED <<nonExecVars, cmd_list, capture_output, check, echo, script, proc, pipe,
                 buffer, rpc, terminal, returncode>>

ExecDone == mpc \in {"returned", "raised"}

ExecNext ==
  \/ \E s \in Streams : ProcWrite(s)
  \/ ProcExit
  \/ RunUncaptured
  \/ RunUncapturedDone
  \/ Popen
  \/ StartThread
  \/ \E s \in Streams : ReaderRead(s)
  \/ \E s \in Streams : ReaderEcho(s)
  \/ \E s \in Streams : ReaderEof(s)
  \/ Wait
  \/ JoinThreads
  \/ Replay
  \/ Complete

(***************************************************************************)
(* _set_tfvar_value                                                        *)
(***************************************************************************)
MaxLines == 2
MaxTrail == 2
MaxUpserts == 2

Whitespace == {" ", "\t"}

RECURSIVE SplitLines(_)
\* content.splitlines(): no empty last line for a text ending in a line break
SplitLines(t) ==
  IF t = <<>> THEN <<>>
  ELSE LET breaks == {i \in 1..Len(t) : t[i] = NL}
       IN  IF breaks = {} THEN <<t>>
           ELSE LET i == CHOOSE j \in breaks : \A k \in breaks : j <= k
                IN  <<SubSeq(t, 1, i - 1)>> \o SplitLines(SubSeq(t, i + 1, Len(t)))

RECURSIVE LStrip(_)
\* line.lstrip()
LStrip(s) ==
  IF s # <<>> /\ Head(s) \in Whitespace THEN LStrip(Tail(s)) ELSE s

RECURSIVE RStrip(_)
RStrip(s) ==
  IF s # <<>> /\ s[Len(s)] \in Whitespace
  THEN RStrip(SubSeq(s, 1, Len(s) - 1)) ELSE s

\* line.strip()
Strip(s) == RStrip(LStrip(s))

Contains(s, c) == \E i \in 1..Len(s) : s[i] = c

\* stripped.split("=", 1)[0]
BeforeFirst(s, c) ==
  LET hits == {i \in 1..Len(s) : s[i] = c}
  IN  IF hits = {} THEN s
      ELSE SubSeq(s, 1, (CHOOSE j \in hits : \A k \in hits : j <= k) - 1)

\* the loop body's conditions: a non-blank, non-comment line with an "="
\* whose stripped left-hand side is the key
Matches(line, key) ==
  LET stripped == Strip(line)
  IN  /\ stripped # <<>>
      /\ Head(stripped) # "#"
      /\ Contains(stripped, "=")
      /\ Strip(BeforeFirst(stripped, "=")) = key

IndentDropped(line) == <<>>
\* line[: len(line) - len(line.lstrip())]
Indent(line) == SubSeq(line, 1, Len(line) - Len(LStrip(line)))

\* f'{key} = "{value}"'
NewLine(key, value) == key \o <<" ", "=", " ", "\"">> \o value \o <<"\"">>

RECURSIVE JoinLines(_)
\* "\n".join(lines)
JoinLines(lines) ==
  IF lines = <<>> THEN <<>>
  ELSE IF Len(lines) = 1 THEN lines[1]
  ELSE lines[1] \o <<NL>> \o JoinLines(Tail(lines))

MatchingLines(lines, key) == {i \in 1..Len(lines) : Matches(lines[i], key)}

Least(S) == CHOOSE i \in S : \A j \in S : i <= j
Greatest(S) == CHOOSE i \in S : \A j \in S : j <= i

LastMatch(lines, key) == Greatest(MatchingLines(lines, key))
\* the index at which the for loop breaks
FirstMatch(lines, key) == Least(MatchingLines(lines, key))

PatchedPrepends(lines, key, value) ==
  IF MatchingLines(lines, key) # {}
  THEN LET idx == FirstMatch(lines, key)
       IN  [lines EXCEPT ![idx] = Indent(lines[idx]) \o NewLine(key, value)]
  ELSE <<NewLine(key, value)>> \o lines

\* the list lines after the for ... else
Patched(lines, key, value) ==
  IF MatchingLines(lines, key) # {}
  THEN LET idx == FirstMatch(lines, key)
       IN  [lines EXCEPT ![idx] = Indent(lines[idx]) \o NewLine(key, value)]
  ELSE Append(lines, NewLine(key, value))

RECURSIVE RStripNewlines(_)
RStripNewlines(t) ==
  IF t # <<>> /\ t[Len(t)] = NL THEN RStripNewlines(SubSeq(t, 1, Len(t) - 1)) ELSE t

TerminatedAlwaysAdds(updated) == Append(updated, NL)
TerminatedNormalised(updated) == Append(RStripNewlines(updated), NL)
\* if not updated.endswith("\n"): updated += "\n"
Terminated(updated) ==
  IF updated # <<>> /\ updated[Len(updated)] = NL THEN updated
  ELSE Append(updated, NL)

SetTfvarValue(text, key, value) ==
  Terminated(JoinLines(Patched(SplitLines(text), key, value)))

\* ---- the inputs ----
Keys == {<<"a">>, <<"b">>}
Values == {<<"x">>, <<"y">>}
LinePool ==
  { <<"a", " ", "=", " ", "\"", "x", "\"">>,   \* a = "x"
    <<" ", "a", "=", "\"", "y", "\"">>,        \* indented: a="y"
    <<"b", " ", "=", " ", "\"", "x", "\"">>,   \* b = "x"
    <<"#", "a", "=", "x">>,                    \* a comment
    <<"a">>,                                   \* no assignment operator
    <<" ">>,                                   \* whitespace only
    <<>> }                                     \* blank

Newlines(n) == [i \in 1..n |-> NL]

Texts ==
  {JoinLines(ls) \o Newlines(n) : ls \in SeqsUpTo(LinePool, MaxLines), n \in 0..MaxTrail}

PatchIdle ==
  /\ content = <<>>
  /\ patches = <<>>

PatchInit ==
  /\ content \in Texts
  /\ patches = <<>>

\* content = _set_tfvar_value(content, key, value)
Upsert(key, value) ==
  /\ Len(patches) < MaxUpserts
  /\ content' = SetTfvarValue(content, key, value)
  /\ patches' = Append(patches, [before |-> content, key |-> key, value |-> value])
  /\ UNCHANGED nonPatchVars

PatchNext == \E key \in Keys, value \in Values : Upsert(key, value)


(***************************************************************************)
(* deploy_bootstrap / deploy_workload                                      *)
(* One environment ("dev").  An external command either exits 0 or not;    *)
(* run_logged(check=True) turns a nonzero exit into CalledProcessError.    *)
(***************************************************************************)
MaxRuns == 2

Env == "dev"
Stacks == {"bootstrap", "workload"}
Target == "dev.tfvars"
\* example_candidates, in the order they are tried
ExampleCandidates ==
  <<"terraform.tfvars.dev.example", "dev.tfvars.example", "terraform.tfvars.example">>
FileNames == {Target} \cup {ExampleCandidates[i] : i \in 1..Len(ExampleCandidates)}

IdentityVars ==
  {"AZURE_SUBSCRIPTION_ID", "ARM_SUBSCRIPTION_ID", "AZURE_TENANT_ID", "ARM_TENANT_ID"}
EnvNames ==
  IdentityVars \cup
  {"TF_VAR_subscription_id", "TF_VAR_tenant_id", "TF_VAR_environment_code",
   "AZ_READER_REGISTRY_LOGIN_SERVER", "REGISTRY_LOGIN_SERVER", "IMAGE_TAG",
   "AZ_READER_IMAGE_REPOSITORY_PREFIX"}

NoEnv == [n \in EnvNames |-> Nothing]

\* the truth value of os.environ.get(name): a variable that is unset or set
\* to the empty string counts as false
Truthy(a) == a # Nothing /\ a # Some("")

\* os.environ.get(a) or os.environ.get(b)
Or(a, b) == IF Truthy(a) THEN a ELSE b

\* what az account show reports
AzIdentity == [subscription_id |-> "sub-az", tenant_id |-> "tenant-az"]

EnvSub(e) == Or(e["AZURE_SUBSCRIPTION_ID"], e["ARM_SUBSCRIPTION_ID"])
EnvTenant(e) == Or(e["AZURE_TENANT_ID"], e["ARM_TENANT_ID"])
\* if env_sub and env_tenant
IdentityFromEnv(e) == Truthy(EnvSub(e)) /\ Truthy(EnvTenant(e))
EnvIdentity(e) == [subscription_id |-> EnvSub(e)[1], tenant_id |-> EnvTenant(e)[1]]

\* export_core_tf_env (and the two assignments of load_bootstrap_state)
ExportArm(e, c) ==
  [e EXCEPT !["ARM_SUBSCRIPTION_ID"] = Some(c.subscription_id),
            !["ARM_TENANT_ID"] = Some(c.tenant_id)]
ExportCoreTfEnv(e, c) ==
  [ExportArm(e, c) EXCEPT !["TF_VAR_subscription_id"] = Some(c.subscription_id),
                          !["TF_VAR_tenant_id"] = Some(c.tenant_id),
                          !["TF_VAR_environment_code"] = Some(Env)]

\* ---- ensure_tfvars ----
Existing(dir) == {i \in 1..Len(ExampleCandidates) : dir[ExampleCandidates[i]] # Nothing}
ExampleLast(dir) ==
  IF Existing(dir) = {} THEN Nothing ELSE dir[ExampleCandidates[Greatest(Existing(dir))]]
\* next((path for path in example_candidates if path.exists()), None)
Example(dir) ==
  IF Existing(dir) = {} THEN Nothing ELSE dir[ExampleCandidates[Least(Existing(dir))]]

\* raise FileNotFoundError("Missing tfvars for env ... and no example found")
MissingVariableTemplate(dir) == dir[Target] = Nothing /\ Example(dir) = Nothing

\* the three upserts of ensure_tfvars on the (seeded) target
EnsureTfvars(dir, c) ==
  LET seeded == IF dir[Target] = Nothing THEN Example(dir)[1] ELSE dir[Target][1]
      one == SetTfvarValue(seeded, <<"subscription_id">>, <<c.subscription_id>>)
      two == SetTfvarValue(one, <<"tenant_id">>, <<c.tenant_id>>)
  IN  [dir EXCEPT ![Target] = Some(SetTfvarValue(two, <<"environment_code">>, <<Env>>))]

RECURSIVE UpdateTfvarsText(_, _)
\* for key, value in updates.items(): content = _set_tfvar_value(content, key, value)
UpdateTfvarsText(text, updates) ==
  IF updates = <<>> THEN text
  ELSE UpdateTfvarsText(SetTfvarValue(text, <<updates[1][1]>>, updates[1][2]), Tail(updates))

\* update_tfvars(tfvars_path, updates)
UpdateTfvars(dir, updates) ==
  [dir EXCEPT ![Target] =
     Some(UpdateTfvarsText(IF dir[Target] = Nothing THEN <<>> ELSE dir[Target][1], updates))]

\* ---- the inputs ----
Assign(k, v) == NewLine(<<k>>, <<v>>)

ExampleText ==
  JoinLines(<< <<"#", " ", "example">>, Assign("subscription_id", "<sub>"),
               Assign("registry_login_server", "myacr.azurecr.io") >>) \o <<NL>>
StaleText ==
  JoinLines(<< Assign("subscription_id", "sub-old"), Assign("tenant_id", "tenant-old"),
               Assign("environment_code", Env) >>) \o <<NL>>

NoFiles == [n \in FileNames |-> Nothing]
\* a stack directory: nothing there, only an example, or a variable file
Dirs ==
  { NoFiles,
    [NoFiles EXCEPT !["terraform.tfvars.example"] = Some(ExampleText)],
    [NoFiles EXCEPT ![Target] = Some(StaleText)] }

ShellEnvs ==
  { NoEnv,
    [NoEnv EXCEPT !["AZURE_SUBSCRIPTION_ID"] = Some("sub-env"),
                  !["AZURE_TENANT_ID"] = Some("tenant-env")] }

RegistryOverrides == {Nothing, Some("myacr.azurecr.io"), Some("registry.example.com")}
Args == [local_docker : BOOLEAN, registry_login_server : RegistryOverrides]

NoArgs == [local_docker |-> FALSE, registry_login_server |-> Nothing]
NoBp == [ctx |-> Nothing, login_server |-> Nothing, full_image |-> Nothing]
NoOutputs == Nothing

RunReset ==
  /\ ctx = Nothing
  /\ outputs = NoOutputs
  /\ bootstrap_state = Nothing
  /\ bp = NoBp
  /\ cmds = <<>>
  /\ exits = <<>>
  /\ failure = Nothing

DeployIdle ==
  /\ workflow = "none"
  /\ dpc = "idle"
  /\ runs = 0
  /\ argv = NoArgs
  /\ shell_env = NoEnv
  /\ environ = NoEnv
  /\ files = [s \in Stacks |-> NoFiles]
  /\ state_file = FALSE
  /\ RunReset

DeployInit ==
  /\ workflow = "none"
  /\ dpc = "idle"
  /\ runs = 0
  /\ argv = NoArgs
  /\ shell_env \in ShellEnvs
  /\ environ = NoEnv
  /\ files \in [Stacks -> Dirs]
  /\ state_file \in BOOLEAN
  /\ RunReset


\* ---- external commands, as the run logs them ----
Cmd(tool, op, stack) ==
  [tool |-> tool, op |-> op, stack |-> stack, backend |-> Nothing, image |-> Nothing]
\* a command of the build step, with the image it is told to build or push
BuildCmd(tool, op, image) ==
  [tool |-> tool, op |-> op, stack |-> "-", backend |-> Nothing, image |-> Some(image)]
AzAccountShow == Cmd("az", "account show", "-")
TerraformInitLocal(stack) == Cmd("terraform", "init-local", stack)
TerraformInitRemote(stack, tenant, st) ==
  [tool |-> "terraform", op |-> "init-remote", stack |-> stack,
   backend |-> Some([tenant_id |-> tenant, resource_group_name |-> st.resource_group,
                     storage_account_name |-> st.storage_account,
                     container_name |-> st.container, key |-> st.blob_key]),
   image |-> Nothing]
TerraformPlan(stack) == Cmd("terraform", "plan", stack)
TerraformApply(stack) == Cmd("terraform", "apply", stack)
TerraformOutput(stack) == Cmd("terraform", "output", stack)

Error(name, detail) == [error |-> name, detail |-> detail]

\* an exception leaves deploy_* : the script ends
Raise(name, detail) ==
  /\ failure' = Some(Error(name, detail))
  /\ dpc' = "failed"

RunLoggedRetries(cmd, ok, next) ==
  /\ cmds' = Append(cmds, cmd)
  /\ exits' = Append(exits, IF ok THEN 0 ELSE 1)
  /\ dpc' = IF ok THEN next ELSE dpc
  /\ UNCHANGED failure

RunLoggedContinues(cmd, ok, next) ==
  /\ cmds' = Append(cmds, cmd)
  /\ exits' = Append(exits, IF ok THEN 0 ELSE 1)
  /\ dpc' = next
  /\ IF ok THEN UNCHANGED failure ELSE failure' = Some(Error("ProcessFailed", cmd.op))

\* run_logged(cmd) with check=True: the command is issued; a nonzero exit raises
RunLogged(cmd, ok, next) ==
  /\ cmds' = Append(cmds, cmd)
  /\ exits' = Append(exits, IF ok THEN 0 ELSE 1)
  /\ IF ok THEN dpc' = next /\ UNCHANGED failure
     ELSE Raise("ProcessFailed", cmd.op)

\* ---- bootstrap outputs ----
RequiredOutputs ==
  <<"state_rg_name", "state_storage_account_name", "state_container_name", "state_blob_key">>
OutputNames == {RequiredOutputs[i] : i \in 1..Len(RequiredOutputs)}
Absent == "<absent>"
Null == "<null>"
OutputValue ==
  [k \in OutputNames |->
     CASE k = "state_rg_name" -> "rg-state"
       [] k = "state_storage_account_name" -> "sastate"
       [] k = "state_container_name" -> "tfstate"
       [] k = "state_blob_key" -> "dev.tfstate"]
\* terraform output -json of the bootstrap stack: each output absent, without a
\* value, or with its value
OutputMaps == {o \in [OutputNames -> {Absent, Null} \cup {OutputValue[k] : k \in OutputNames}] :
                 \A k \in OutputNames : o[k] \in {Absent, Null, OutputValue[k]}}

MissingNeverRaised(o, key) == FALSE
\* outputs.get(key, {}).get("value") is None
Missing(o, key) == o[key] \in {Absent, Null}
\* _required(key) when it returns: str(value)
Required(o, key) == o[key]

MissingOutputs(o) == {i \in 1..Len(RequiredOutputs) : Missing(o, RequiredOutputs[i])}

BootstrapStateFromOutputsSwapped(o) ==
  [resource_group |-> Required(o, "state_storage_account_name"),
   storage_account |-> Required(o, "state_rg_name"),
   container |-> Required(o, "state_container_name"),
   blob_key |-> Required(o, "state_blob_key")]

\* BootstrapState(resource_group=_required(...), ...)
BootstrapStateFromOutputs(o) ==
  [resource_group |-> Required(o, "state_rg_name"),
   storage_account |-> Required(o, "state_storage_account_name"),
   container |-> Required(o, "state_container_name"),
   blob_key |-> Required(o, "state_blob_key")]

\* ---- the steps shared by deploy_bootstrap and deploy_workload ----
Running == dpc \notin {"idle", "done", "failed"}
\* manage_tokens is running
TRunning == tpc \notin {"idle", "done", "failed"}

StartRun(w, a) ==
  /\ ~Running
  /\ ~TRunning
  /\ runs < MaxRuns
  /\ runs' = runs + 1
  /\ workflow' = w
  /\ argv' = a
  /\ environ' = shell_env
  /\ ctx' = Nothing
  /\ outputs' = NoOutputs
  /\ bootstrap_state' = Nothing
  /\ bp' = NoBp
  /\ cmds' = <<>>
  /\ exits' = <<>>
  /\ failure' = Nothing
  /\ dpc' = "ensure"
  /\ UNCHANGED <<nonDeployVars, shell_env, files, state_file>>

StartBootstrap == StartRun("bootstrap", NoArgs)
StartWorkload == \E a \in Args : StartRun("workload", a)

\* ensure(["az", "terraform"])
Ensure ==
  /\ dpc = "ensure"
  /\ \E found \in BOOLEAN :
       IF found THEN dpc' = "azure_context" /\ UNCHANGED failure
       ELSE Raise("MissingBinary", "")
  /\ UNCHANGED <<nonDeployVars, workflow, runs, argv, shell_env, environ, ctx, files,
                 state_file, outputs, bootstrap_state, bp, cmds, exits>>

\* ctx = azure_context()
AzureContext ==
  /\ dpc = "azure_context"
  /\ IF IdentityFromEnv(environ)
     THEN /\ ctx' = Some(EnvIdentity(environ))
          /\ dpc' = "export"
          /\ UNCHANGED <<cmds, exits, failure>>
     ELSE \E reply \in {"ok", "nonzero", "unparsable"} :
            /\ cmds' = Append(cmds, AzAccountShow)
            /\ exits' = Append(exits, IF reply = "nonzero" THEN 1 ELSE 0)
            /\ CASE reply = "ok" ->
                      ctx' = Some(AzIdentity) /\ dpc' = "export" /\ UNCHANGED failure
                 [] reply = "nonzero" ->
                      Raise("ProcessFailed", AzAccountShow.op) /\ UNCHANGED ctx
                 [] reply = "unparsable" ->
                      Raise("IdentityResolutionFailed", "") /\ UNCHANGED ctx
  /\ UNCHANGED <<nonDeployVars, workflow, runs, argv, shell_env, environ, files,
                 state_file, outputs, bootstrap_state, bp>>

\* export_core_tf_env(env, ctx)
ExportEnv ==
  /\ dpc = "export"
  /\ environ' = ExportCoreTfEnv(environ, ctx[1])
  /\ dpc' = "ensure_tfvars"
  /\ UNCHANGED <<nonDeployVars, workflow, runs, argv, shell_env, ctx, files,
                 state_file, outputs, bootstrap_state, bp, cmds, exits, failure>>

\* tfvars = ensure_tfvars(paths.<stack>, env, ctx.subscription_id, ctx.tenant_id)
EnsureTfvarsStep ==
  /\ dpc = "ensure_tfvars"
  /\ IF MissingVariableTemplate(files[workflow])
     THEN Raise("MissingVariableTemplate", workflow) /\ UNCHANGED files
     ELSE /\ files' = [files EXCEPT ![workflow] = EnsureTfvars(@, ctx[1])]
          /\ dpc' = IF workflow = "bootstrap" THEN "init_local" ELSE "bp_ensure"
          /\ UNCHANGED failure
  /\ UNCHANGED <<nonDeployVars, workflow, runs, argv, shell_env, environ, ctx,
                 state_file, outputs, bootstrap_state, bp, cmds, exits>>

\* deploy_bootstrap: mkdir of the state directory, terraform_init_local
InitLocal ==
  /\ dpc = "init_local"
  /\ \E ok \in BOOLEAN : RunLogged(TerraformInitLocal("bootstrap"), ok, "plan")
  /\ UNCHANGED <<nonDeployVars, workflow, runs, argv, shell_env, environ, ctx, files,
                 state_file, outputs, bootstrap_state, bp>>

\* terraform_plan(paths.<stack>, tfvars, extra)
Plan ==
  /\ dpc = "plan"
  /\ \E ok \in BOOLEAN : RunLogged(TerraformPlan(workflow), ok, "apply")
  /\ UNCHANGED <<nonDeployVars, workflow, runs, argv, shell_env, environ, ctx, files,
                 state_file, outputs, bootstrap_state, bp>>

\* terraform_apply(paths.<stack>, tfvars, True, extra).  The bootstrap stack keeps
\* its state in the local state file: a successful apply writes it, a failed
\* one may have written it.
Apply ==
  /\ dpc = "apply"
  /\ \E ok \in BOOLEAN :
       /\ RunLogged(TerraformApply(workflow), ok,
                    IF workflow = "bootstrap" THEN "done" ELSE "log_endpoints")
       /\ IF workflow = "bootstrap"
          THEN state_file' \in (IF ok THEN {TRUE} ELSE {state_file, TRUE})
          ELSE UNCHANGED state_file
  /\ UNCHANGED <<nonDeployVars, workflow, runs, argv, shell_env, environ, ctx, files,
                 outputs, bootstrap_state, bp>>


\* ---- build_and_push, as deploy_workload calls it ----
AcrServers == {"myacr.azurecr.io"}
Placeholders == {"<acr>", "<sub>"}
ImageRepo == "az-reader"

\* hcl2.load(handle).get(key): the value of the file's assignment of key
\* (files with at most one assignment per key), Nothing without one
TfvarsValue(dir, key) ==
  IF dir[Target] = Nothing THEN Nothing
  ELSE LET lines == SplitLines(dir[Target][1])
       IN  IF MatchingLines(lines, <<key>>) = {} THEN Nothing
           ELSE LET line == Strip(lines[FirstMatch(lines, <<key>>)])
                    rhs == Strip(SubSeq(line, Len(BeforeFirst(line, "=")) + 2, Len(line)))
                IN  IF Len(rhs) = 3 /\ rhs[1] = "\"" /\ rhs[3] = "\""
                    THEN Some(rhs[2]) ELSE Nothing

\* override or AZ_READER_REGISTRY_LOGIN_SERVER or REGISTRY_LOGIN_SERVER or tfvars
RegistryLoginServer(override, e, dir) ==
  Or(override, Or(e["AZ_READER_REGISTRY_LOGIN_SERVER"],
                  Or(e["REGISTRY_LOGIN_SERVER"], TfvarsValue(dir, "registry_login_server"))))

\* if not value or "<" in value or value.strip() == ""
RegistryEndpointRequired(value) == ~Truthy(value) \/ value[1] \in Placeholders

\* f"{login_server}/{image_repo}:{image_tag}"
FullImage(login_server, tag) == <<login_server, "/", ImageRepo, ":", tag>>
\* f"{image_repo}:{image_tag}", taken from the full reference
RemoteImage(full_image) == SubSeq(full_image, 3, Len(full_image))
\* login_server.split(".")[0]
RegistryNameFromLoginServer(login_server) ==
  CASE login_server = "myacr.azurecr.io" -> "myacr"
    [] login_server = "registry.example.com" -> "registry"
    [] OTHER -> login_server

\* ensure(["terraform", "az"]); if local_docker: ensure(["docker"])
BpEnsure ==
  /\ dpc = "bp_ensure"
  /\ \E found \in BOOLEAN :
       IF found THEN dpc' = "bp_context" /\ UNCHANGED failure
       ELSE Raise("MissingBinary", "")
  /\ UNCHANGED <<nonDeployVars, workflow, runs, argv, shell_env, environ, ctx, files,
                 state_file, outputs, bootstrap_state, bp, cmds, exits>>

\* paths = resolve_paths(); ctx = azure_context(); tfvars = tfvars_path;
\* login_server = _registry_login_server(...)
BpContext ==
  /\ dpc = "bp_context"
  /\ \E reply \in (IF IdentityFromEnv(environ) THEN {"env"}
                   ELSE {"ok", "nonzero", "unparsable"}) :
       LET c == IF reply = "env" THEN EnvIdentity(environ) ELSE AzIdentity
           value == RegistryLoginServer(argv.registry_login_server, environ,
                                        files["workload"])
       IN  /\ cmds' = IF reply = "env" THEN cmds ELSE Append(cmds, AzAccountShow)
           /\ exits' = IF reply = "env" THEN exits
                       ELSE Append(exits, IF reply = "nonzero" THEN 1 ELSE 0)
           /\ IF reply = "nonzero"
              THEN Raise("ProcessFailed", AzAccountShow.op) /\ UNCHANGED bp
              ELSE IF reply = "unparsable"
              THEN Raise("IdentityResolutionFailed", "") /\ UNCHANGED bp
              ELSE IF RegistryEndpointRequired(value)
              THEN /\ Raise("RegistryEndpointRequired", "")
                   /\ bp' = [bp EXCEPT !.ctx = Some(c)]
              ELSE /\ bp' = [bp EXCEPT !.ctx = Some(c), !.login_server = value]
                   /\ dpc' = "bp_template"
                   /\ UNCHANGED failure
  /\ UNCHANGED <<nonDeployVars, workflow, runs, argv, shell_env, environ, ctx, files,
                 state_file, outputs, bootstrap_state>>

\* template = repo_root() / "acr-build.yaml"; if not template.exists(): raise
BpTemplate ==
  /\ dpc = "bp_template"
  /\ \E exists \in BOOLEAN :
       IF exists THEN dpc' = "bp_tag" /\ UNCHANGED failure
       ELSE Raise("MissingBuildTemplate", "")
  /\ UNCHANGED <<nonDeployVars, workflow, runs, argv, shell_env, environ, ctx, files,
                 state_file, outputs, bootstrap_state, bp, cmds, exits>>

GitRevParse == Cmd("git", "rev-parse", "-")
GitDiffCached == Cmd("git", "diff --cached", "-")
GitDiff == Cmd("git", "diff", "-")

\* image_tag = os.environ.get("IMAGE_TAG") or derive_image_tag(paths.root)
BpTag ==
  /\ dpc = "bp_tag"
  /\ \E git \in {"none", "no-commit", "clean", "staged", "unstaged"} :
       LET issued == CASE environ["IMAGE_TAG"] # Nothing -> <<>>
                       [] git = "none" -> <<>>
                       [] git = "no-commit" -> <<GitRevParse>>
                       [] git = "staged" -> <<GitRevParse, GitDiffCached>>
                       [] OTHER -> <<GitRevParse, GitDiffCached, GitDiff>>
           codes == CASE environ["IMAGE_TAG"] # Nothing -> <<>>
                      [] git = "none" -> <<>>
                      [] git = "no-commit" -> <<1>>
                      [] git = "staged" -> <<0, 1>>
                      [] git = "unstaged" -> <<0, 0, 1>>
                      [] OTHER -> <<0, 0, 0>>
           tag == CASE environ["IMAGE_TAG"] # Nothing -> environ["IMAGE_TAG"][1]
                    [] git \in {"none", "no-commit"} -> "20261105"
                    [] git = "clean" -> "c0ffee-20261105"
                    [] OTHER -> "c0ffee-20261105-dirty"
       IN  /\ cmds' = cmds \o issued
           /\ exits' = exits \o codes
           /\ bp' = [bp EXCEPT !.full_image = Some(FullImage(bp.login_server[1], tag))]
  /\ dpc' = "bp_includes"
  /\ UNCHANGED <<nonDeployVars, workflow, runs, argv, shell_env, environ, ctx, files,
                 state_file, outputs, bootstrap_state, failure>>

\* every include path must exist; the context is then staged in a temporary
\* directory (build_context is ".", which the staged directory always has)
BpIncludes ==
  /\ dpc = "bp_includes"
  /\ \E exist \in BOOLEAN :
       IF exist
       THEN /\ dpc' = IF ~argv.local_docker THEN "bp_acr_run"
                      ELSE IF bp.login_server[1] \in AcrServers THEN "bp_login"
                      ELSE "bp_docker_build"
            /\ UNCHANGED failure
       ELSE Raise("MissingIncludePath", "")
  /\ UNCHANGED <<nonDeployVars, workflow, runs, argv, shell_env, environ, ctx, files,
                 state_file, outputs, bootstrap_state, bp, cmds, exits>>

\* _acr_docker_login(registry_name)
BpLogin ==
  /\ dpc = "bp_login"
  /\ \E ok \in BOOLEAN : RunLogged(Cmd("az", "acr login", "-"), ok, "bp_docker_build")
  /\ UNCHANGED <<nonDeployVars, workflow, runs, argv, shell_env, environ, ctx, files,
                 state_file, outputs, bootstrap_state, bp>>

\* _docker_build_and_push: docker build
BpDockerBuild ==
  /\ dpc = "bp_docker_build"
  /\ \E ok \in BOOLEAN : RunLogged(BuildCmd("docker", "build", bp.full_image[1]), ok, "bp_docker_push")
  /\ UNCHANGED <<nonDeployVars, workflow, runs, argv, shell_env, environ, ctx, files,
                 state_file, outputs, bootstrap_state, bp>>

\* _docker_build_and_push: docker push
BpDockerPush ==
  /\ dpc = "bp_docker_push"
  /\ \E ok \in BOOLEAN : RunLogged(BuildCmd("docker", "push", bp.full_image[1]), ok, "bp_record")
  /\ UNCHANGED <<nonDeployVars, workflow, runs, argv, shell_env, environ, ctx, files,
                 state_file, outputs, bootstrap_state, bp>>

\* _acr_run_build
BpAcrRun ==
  /\ dpc = "bp_acr_run"
  /\ \E ok \in BOOLEAN :
       RunLogged(BuildCmd("az", "acr run",
                          <<RegistryNameFromLoginServer(bp.login_server[1])>>
                            \o RemoteImage(bp.full_image[1])),
                 ok, "bp_record")
  /\ UNCHANGED <<nonDeployVars, workflow, runs, argv, shell_env, environ, ctx, files,
                 state_file, outputs, bootstrap_state, bp>>

BpRecordRemoteImage ==
  /\ dpc = "bp_record"
  /\ files' = [files EXCEPT !["workload"] =
                 UpdateTfvars(@, << <<"registry_login_server", <<bp.login_server[1]>> >>,
                                    <<"container_image", RemoteImage(bp.full_image[1])>> >>)]
  /\ dpc' = "load_state"
  /\ UNCHANGED <<nonDeployVars, workflow, runs, argv, shell_env, environ, ctx,
                 state_file, outputs, bootstrap_state, bp, cmds, exits, failure>>

\* update_tfvars(tfvars, {"registry_login_server": ..., tfvars_key: full_image})
BpRecord ==
  /\ dpc = "bp_record"
  /\ files' = [files EXCEPT !["workload"] =
                 UpdateTfvars(@, << <<"registry_login_server", <<bp.login_server[1]>> >>,
                                    <<"container_image", bp.full_image[1]>> >>)]
  /\ dpc' = "load_state"
  /\ UNCHANGED <<nonDeployVars, workflow, runs, argv, shell_env, environ, ctx,
                 state_file, outputs, bootstrap_state, bp, cmds, exits, failure>>

\* ---- load_bootstrap_state ----
StateFileMissingIgnored == FALSE
\* if not state_path.exists()
StateFileMissing == ~state_file

\* the existence check, then os.environ["ARM_..."] = ...
LoadBootstrapState ==
  /\ dpc = "load_state"
  /\ IF StateFileMissing
     THEN Raise("UpstreamNotBootstrapped", Env) /\ UNCHANGED environ
     ELSE /\ environ' = ExportArm(environ, ctx[1])
          /\ dpc' = "bs_init"
          /\ UNCHANGED failure
  /\ UNCHANGED <<nonDeployVars, workflow, runs, argv, shell_env, ctx, files,
                 state_file, outputs, bootstrap_state, bp, cmds, exits>>

\* terraform_init_local(paths.bootstrap, state_path)
BsInit ==
  /\ dpc = "bs_init"
  /\ \E ok \in BOOLEAN : RunLogged(TerraformInitLocal("bootstrap"), ok, "bs_output")
  /\ UNCHANGED <<nonDeployVars, workflow, runs, argv, shell_env, environ, ctx, files,
                 state_file, outputs, bootstrap_state, bp>>

\* outputs = terraform_output(paths.bootstrap)
BsOutput ==
  /\ dpc = "bs_output"
  /\ \E ok \in BOOLEAN :
       /\ RunLogged(TerraformOutput("bootstrap"), ok, "bs_map")
       /\ IF ok THEN \E o \in OutputMaps : outputs' = Some(o)
          ELSE UNCHANGED outputs
  /\ UNCHANGED <<nonDeployVars, workflow, runs, argv, shell_env, environ, ctx, files,
                 state_file, bootstrap_state, bp>>

\* return bootstrap_state_from_outputs(outputs)
BsMap ==
  /\ dpc = "bs_map"
  /\ IF MissingOutputs(outputs[1]) # {}
     THEN /\ Raise("MissingStackOutput", RequiredOutputs[Least(MissingOutputs(outputs[1]))])
          /\ UNCHANGED bootstrap_state
     ELSE /\ bootstrap_state' = Some(BootstrapStateFromOutputs(outputs[1]))
          /\ dpc' = "update_tfvars"
          /\ UNCHANGED failure
  /\ UNCHANGED <<nonDeployVars, workflow, runs, argv, shell_env, environ, ctx, files,
                 state_file, outputs, bp, cmds, exits>>

\* ---- the rest of deploy_workload ----
\* update_tfvars(tfvars, {"state_resource_group_name": ..., ...})
RecordBootstrapState ==
  /\ dpc = "update_tfvars"
  /\ LET st == bootstrap_state[1]
     IN  files' = [files EXCEPT !["workload"] =
                     UpdateTfvars(@, << <<"state_resource_group_name", <<st.resource_group>> >>,
                                        <<"state_storage_account_name", <<st.storage_account>> >>,
                                        <<"state_container_name", <<st.container>> >>,
                                        <<"state_blob_key", <<st.blob_key>> >> >>)]
  /\ dpc' = "init_remote"
  /\ UNCHANGED <<nonDeployVars, workflow, runs, argv, shell_env, environ, ctx,
                 state_file, outputs, bootstrap_state, bp, cmds, exits, failure>>

\* terraform_init_remote(paths.workload, tenant_id=..., state_rg=..., ...)
InitRemote ==
  /\ dpc = "init_remote"
  /\ \E ok \in BOOLEAN :
       RunLogged(TerraformInitRemote("workload", ctx[1].tenant_id, bootstrap_state[1]),
                 ok, "plan")
  /\ UNCHANGED <<nonDeployVars, workflow, runs, argv, shell_env, environ, ctx, files,
                 state_file, outputs, bootstrap_state, bp>>

\* _log_app_endpoints(paths.workload)
LogEndpoints ==
  /\ dpc = "log_endpoints"
  /\ \E ok \in BOOLEAN : RunLogged(TerraformOutput("workload"), ok, "done")
  /\ UNCHANGED <<nonDeployVars, workflow, runs, argv, shell_env, environ, ctx, files,
                 state_file, outputs, bootstrap_state, bp>>

DeployNext ==
  \/ StartBootstrap
  \/ StartWorkload
  \/ Ensure
  \/ AzureContext
  \/ ExportEnv
  \/ EnsureTfvarsStep
  \/ InitLocal
  \/ Plan
  \/ Apply
  \/ BpEnsure
  \/ BpContext
  \/ BpTemplate
  \/ BpTag
  \/ BpIncludes
  \/ BpLogin
  \/ BpDockerBuild
  \/ BpDockerPush
  \/ BpAcrRun
  \/ BpRecord
  \/ LoadBootstrapState
  \/ BsInit
  \/ BsOutput
  \/ BsMap
  \/ RecordBootstrapState
  \/ InitRemote
  \/ LogEndpoints


(***************************************************************************)
(* ensure_tfvars, called repeatedly on one stack directory.                *)
(* The directory holds any subset of the three example files and possibly  *)
(* the variable file.  Each example starts with a comment naming it, so    *)
(* that the examples differ; the rest is the same body.                    *)
(***************************************************************************)
MaxSeeds == 2
MaxSeedTrail == 5

\* the lines a body is made of, in file order
SeedLines ==
  << Assign("subscription_id", "<sub>"),
     <<" ", " ">> \o Assign("tenant_id", "<tenant>"),
     Assign("registry_login_server", "myacr.azurecr.io"),
     Assign("environment_code", "old"),
     Assign("subscription_id", "sub-dup") >>

SeedBody(picked) == SelectSeq([i \in 1..Len(SeedLines) |-> IF i \in picked THEN SeedLines[i] ELSE <<NL>>],
                              LAMBDA l : l # <<NL>>)

SeedTexts ==
  {JoinLines(SeedBody(picked)) \o Newlines(n) :
     picked \in SUBSET (1..Len(SeedLines)), n \in 0..MaxSeedTrail}

ExampleFile(i, body) == <<"#", " ", ExampleCandidates[i], NL>> \o body

SeedDirs ==
  {[n \in FileNames |->
      IF n = Target THEN (IF target THEN Some(body) ELSE Nothing)
      ELSE LET i == CHOOSE j \in 1..Len(ExampleCandidates) : ExampleCandidates[j] = n
           IN  IF i \in present THEN Some(ExampleFile(i, body)) ELSE Nothing] :
     body \in SeedTexts, present \in SUBSET (1..Len(ExampleCandidates)), target \in BOOLEAN}

\* the identities ensure_tfvars is called with
SeedContexts == {AzIdentity, [subscription_id |-> "sub-env", tenant_id |-> "tenant-env"]}

SeedIdle ==
  /\ seed_files = NoFiles
  /\ seed_log = <<>>

SeedInit ==
  /\ seed_files \in SeedDirs
  /\ seed_log = <<>>

\* ensure_tfvars(stack_dir, env, c.subscription_id, c.tenant_id)
EnsureTfvarsCall(c) ==
  /\ Len(seed_log) < MaxSeeds
  /\ IF MissingVariableTemplate(seed_files)
     THEN /\ seed_files' = seed_files
          /\ seed_log' = Append(seed_log, [before |-> seed_files, ctx |-> c, after |-> seed_files,
                                           error |-> Some("MissingVariableTemplate")])
     ELSE /\ seed_files' = EnsureTfvars(seed_files, c)
          /\ seed_log' = Append(seed_log, [before |-> seed_files, ctx |-> c,
                                           after |-> EnsureTfvars(seed_files, c),
                                           error |-> Nothing])
  /\ UNCHANGED nonSeedVars

SeedNext == \E c \in SeedContexts : EnsureTfvarsCall(c)


(***************************************************************************)
(* manage_tokens: the token registry kept in one Key Vault secret.         *)
(* A name or a value is a text; atoms are chosen with distinct first       *)
(* characters, so that comparing texts atom by atom is comparing strings.  *)
(***************************************************************************)
\* the atoms, in the order of their first characters
AtomOrder ==
  <<NL, " ", ",", "0", "1", "2", "3", "4", "5", "6", "7", "8", "9", ":", ";", "=",
    "a", "bob", "generated-", "legacy-", "random-", "v", "w", "x", "y">>
Rank(a) == CHOOSE i \in 1..Len(AtomOrder) : AtomOrder[i] = a

DigitChars == <<"0", "1", "2", "3", "4", "5", "6", "7", "8", "9">>
IsDigitChar(c) == \E i \in 1..Len(DigitChars) : DigitChars[i] = c
DigitValue(c) == (CHOOSE i \in 1..Len(DigitChars) : DigitChars[i] = c) - 1

\* item.isdigit()
IsDigit(item) == item # <<>> /\ \A i \in 1..Len(item) : IsDigitChar(item[i])

RECURSIVE IntOf(_)
\* int(item)
IntOf(item) ==
  IF item = <<>> THEN 0
  ELSE IntOf(SubSeq(item, 1, Len(item) - 1)) * Len(DigitChars) + DigitValue(item[Len(item)])

RECURSIVE Decimal(_)
\* f"{suffix}"
Decimal(n) ==
  IF n < Len(DigitChars) THEN <<DigitChars[n + 1]>>
  ELSE Decimal(n \div Len(DigitChars)) \o <<DigitChars[(n % Len(DigitChars)) + 1]>>

\* f"generated-{suffix}", f"legacy-{legacy_counter}"
GeneratedName(n) == <<"generated-">> \o Decimal(n)
LegacyName(n) == <<"legacy-">> \o Decimal(n)
\* _generate_token(): the k-th random value of a call
GenerateToken(k) == <<"random-">> \o Decimal(k)

\* ---- dict ----
EmptyDict == [n \in {} |-> <<>>]
Put(d, k, v) == [n \in DOMAIN d \cup {k} |-> IF n = k THEN v ELSE d[n]]
\* tokens.pop(k, None)
Pop(d, k) == [n \in DOMAIN d \ {k} |-> d[n]]

RECURSIVE Less(_, _)
\* a < b for two str
Less(a, b) ==
  IF b = <<>> THEN FALSE
  ELSE IF a = <<>> THEN TRUE
  ELSE IF Head(a) # Head(b) THEN Rank(Head(a)) < Rank(Head(b))
  ELSE Less(Tail(a), Tail(b))

RECURSIVE SortedSeq(_)
\* sorted(names)
SortedSeq(S) ==
  IF S = {} THEN <<>>
  ELSE LET least == CHOOSE a \in S : \A b \in S \ {a} : Less(a, b)
       IN  <<least>> \o SortedSeq(S \ {least})

\* ---- str ----
PyWhitespace == Whitespace \cup {NL}
RECURSIVE StripAll(_)
\* str.strip(): blanks, tabs and line breaks at both ends
StripAll(t) ==
  IF t # <<>> /\ Head(t) \in PyWhitespace THEN StripAll(Tail(t))
  ELSE IF t # <<>> /\ t[Len(t)] \in PyWhitespace THEN StripAll(SubSeq(t, 1, Len(t) - 1))
  ELSE t

\* raw.split(c, 1)[1]
AfterFirst(t, c) == SubSeq(t, Len(BeforeFirst(t, c)) + 2, Len(t))

RECURSIVE Split(_, _)
\* t.split(c)
Split(t, c) ==
  IF ~Contains(t, c) THEN <<t>>
  ELSE <<BeforeFirst(t, c)>> \o Split(AfterFirst(t, c), c)

\* output.replace("\n", ";").replace(",", ";")
ReplaceDelimiters(t) == [i \in 1..Len(t) |-> IF t[i] \in {NL, ","} THEN ";" ELSE t[i]]

RECURSIVE JoinWith(_, _)
\* sep.join(parts)
JoinWith(parts, sep) ==
  IF parts = <<>> THEN <<>>
  ELSE IF Len(parts) = 1 THEN parts[1]
  ELSE parts[1] \o <<sep>> \o JoinWith(Tail(parts), sep)

\* ---- _load_tokens ----
RECURSIVE ParseEntries(_, _, _)
\* for entry in entries: ... with legacy_counter = counter and tokens = d
ParseEntries(entries, counter, d) ==
  IF entries = <<>> THEN d
  ELSE LET entry == StripAll(Head(entries))
           name == StripAll(BeforeFirst(entry, ":"))
           value == StripAll(AfterFirst(entry, ":"))
       IN  IF entry = <<>> THEN ParseEntries(Tail(entries), counter, d)
           ELSE IF Contains(entry, ":")
           THEN ParseEntries(Tail(entries), counter,
                             IF name # <<>> /\ value # <<>> THEN Put(d, name, value) ELSE d)
           ELSE ParseEntries(Tail(entries), counter + 1, Put(d, LegacyName(counter), entry))

\* what az keyvault secret show --query value --output tsv prints
AzShowOutput(value) == value \o <<NL>>

\* _load_tokens once the command has succeeded
ParseTokens(stdout) ==
  LET output == StripAll(stdout)
  IN  IF output = <<>> THEN EmptyDict
      ELSE ParseEntries(Split(ReplaceDelimiters(output), ";"), 1, EmptyDict)

LoadFailedKeepsNothing == [n \in {<<"a">>} |-> <<"x">>]
\* except Exception: return {}
LoadFailed == EmptyDict

\* ---- _save_tokens ----
\* ";".join(f"{name}:{value}" for name, value in sorted(tokens.items()))
Serialize(d) ==
  LET names == SortedSeq(DOMAIN d)
  IN  JoinWith([i \in 1..Len(names) |-> names[i] \o <<":">> \o d[names[i]]], ";")

\* ---- _validate_component, _parse_name_value ----
ValidComponent(c) == ~Contains(c, ":") /\ ~Contains(c, ";")

\* the exception and the text it carries
TokenError(name, detail) == [error |-> name, detail |-> detail]

\* _parse_name_value(raw): the pair, or the ValueError raised
ParseNameValue(raw) ==
  LET sep == IF Contains(raw, ":") THEN ":" ELSE "="
      name == StripAll(BeforeFirst(raw, sep))
      value == StripAll(AfterFirst(raw, sep))
  IN  IF ~Contains(raw, ":") /\ ~Contains(raw, "=")
      THEN [error |-> Some(TokenError("InvalidTokenFormat", raw))]
      ELSE IF name = <<>> \/ value = <<>>
      THEN [error |-> Some(TokenError("EmptyTokenComponent", raw))]
      ELSE IF ~ValidComponent(name) \/ ~ValidComponent(value)
      THEN [error |-> Some(TokenError("InvalidTokenComponent", raw))]
      ELSE [error |-> Nothing, name |-> name, value |-> value]

\* ---- manage_tokens: the generate loop ----
TakenNever(d, name) == FALSE
\* while name in tokens
Taken(d, name) == name \in DOMAIN d

RECURSIVE Unused(_, _)
\* the suffix the while loop stops at, entered with suffix
Unused(d, suffix) ==
  IF Taken(d, GeneratedName(suffix)) THEN Unused(d, suffix + 1) ELSE suffix

CollidesNever(d, name) == FALSE
\* if name in tokens: raise ValueError("Token name already exists")
Collides(d, name) == name \in DOMAIN d

\* the locals of the loop: tokens, generated (name, token) in insertion order
GenState(d, gen) == [tokens |-> d, generated |-> gen, error |-> Nothing]

RECURSIVE Numeric(_, _, _, _)
\* for idx in range(count), from idx on
Numeric(count, idx, d, gen) ==
  IF idx >= count THEN GenState(d, gen)
  ELSE LET name == GeneratedName(Unused(d, idx + 1))
           token == GenerateToken(Len(gen) + 1)
       IN  Numeric(count, idx + 1, Put(d, name, token), Append(gen, <<name, token>>))

RECURSIVE GenerateAll(_, _, _)
\* for item in generate
GenerateAll(items, d, gen) ==
  IF items = <<>> THEN GenState(d, gen)
  ELSE LET item == Head(items)
           name == StripAll(item)
           token == GenerateToken(Len(gen) + 1)
           counted == Numeric(IntOf(item), 0, d, gen)
       IN  IF IsDigit(item) THEN GenerateAll(Tail(items), counted.tokens, counted.generated)
           ELSE IF name = <<>> THEN GenerateAll(Tail(items), d, gen)
           ELSE IF ~ValidComponent(name)
           THEN [GenState(d, gen) EXCEPT !.error = Some(TokenError("InvalidTokenComponent", name))]
           ELSE IF Collides(d, name)
           THEN [GenState(d, gen) EXCEPT !.error = Some(TokenError("TokenNameCollision", name))]
           ELSE GenerateAll(Tail(items), Put(d, name, token), Append(gen, <<name, token>>))

RECURSIVE AddAll(_, _)
\* for token in add: name, value = _parse_name_value(token); tokens[name] = value
AddAll(items, d) ==
  IF items = <<>> THEN [tokens |-> d, error |-> Nothing]
  ELSE LET pair == ParseNameValue(Head(items))
       IN  IF pair.error # Nothing THEN [tokens |-> d, error |-> pair.error]
           ELSE AddAll(Tail(items), Put(d, pair.name, pair.value))

RECURSIVE RemoveAll(_, _)
\* for token in remove: tokens.pop(token, None)
RemoveAll(items, d) ==
  IF items = <<>> THEN d ELSE RemoveAll(Tail(items), Pop(d, Head(items)))

ListOnlyAlways(a) == a.list_only
\* if list_only and not add and not remove and not generate
ListOnly(a) == a.list_only /\ a.add = <<>> /\ a.remove = <<>> /\ a.generate = <<>>

\* ---- the inputs ----
MaxEntries == 2

\* the entries a secret text is made of
EntryPool ==
  { <<"a", ":", "x">>, <<"a", ":", "y">>, <<"y">>, <<":", "x">>,
    <<"generated-", "2", ":", "v">>, <<"legacy-", "1", ":", "w">>,
    <<"v", ":", "x", ":", "y">> }
Delimiters == {";", ",", NL}
SecretTexts ==
  {JoinWith(entries, sep) : entries \in SeqsUpTo(EntryPool, MaxEntries), sep \in Delimiters}
Secrets == {Nothing} \cup {Some(t) : t \in SecretTexts}

GeneratePool ==
  { <<>>, << <<"2">> >>, << <<"bob">> >>, << <<"a">> >>,
    << <<"1">>, <<"generated-", "1">> >>, << <<" ">> >> }
AddPool ==
  { <<>>, << <<"a", ":", "v">> >>, << <<"generated-", "1", "=", "v", ",", "w">> >>,
    << <<"x">> >>, << <<"a", ":", "v">>, <<"bob", ":", "v", ";", "w">> >> }
RemovePool == { <<>>, << <<"a">> >> }
NoTokenArgs == [generate |-> <<>>, add |-> <<>>, remove |-> <<>>, list_only |-> FALSE]
\* every generate list with every add list, and every remove list with
\* --list or not, alone or after one add
TokenArgs ==
  [generate : GeneratePool, add : AddPool, remove : {<<>>}, list_only : {FALSE}] \cup
  [generate : {<<>>}, add : {<<>>, << <<"a", ":", "v">> >>}, remove : RemovePool,
   list_only : BOOLEAN]
\* one command line, which generates a token
FewTokenArgs == { [NoTokenArgs EXCEPT !.generate = << <<"1">> >>] }

KvShow == [tool |-> "az", op |-> "keyvault secret show", value |-> Nothing]
KvSet(value) == [tool |-> "az", op |-> "keyvault secret set", value |-> Some(value)]
TAccountShow == [tool |-> "az", op |-> "account show", value |-> Nothing]

TokenReset ==
  /\ targs = NoTokenArgs
  /\ tokens = EmptyDict
  /\ loaded = EmptyDict
  /\ generated = <<>>
  /\ listed = Nothing
  /\ tcmds = <<>>
  /\ texits = <<>>
  /\ tfailure = Nothing

TokenIdle ==
  /\ tpc = "idle"
  /\ tpool = {}
  /\ secret = Nothing
  /\ TokenReset

TokenInit ==
  /\ tpc = "idle"
  /\ tpool = TokenArgs
  /\ secret \in Secrets
  /\ TokenReset

TRaiseGoesOn(e) ==
  /\ tfailure' = Some(e)
  /\ tpc' = "finish"

\* an exception leaves main: the script ends
TRaise(e) ==
  /\ tfailure' = Some(e)
  /\ tpc' = "failed"

\* main(argv): the operator starts the script, once, while no other runs
TStart ==
  /\ tpc = "idle"
  /\ ~Running
  /\ runs < MaxRuns
  /\ runs' = runs + 1
  /\ \E a \in tpool : targs' = a
  /\ tpc' = "resolve"
  /\ tokens' = EmptyDict
  /\ loaded' = EmptyDict
  /\ generated' = <<>>
  /\ listed' = Nothing
  /\ tcmds' = <<>>
  /\ texits' = <<>>
  /\ tfailure' = Nothing
  /\ UNCHANGED <<nonTokenVars, files, tpool, secret>>

\* _resolve_targets: azure_context(), ensure_tfvars on the workload stack,
\* load_tfvars, then vault_override or key_vault_name
TResolve ==
  /\ tpc = "resolve"
  /\ \E reply \in {"ok", "nonzero", "unparsable"}, override \in {Nothing, Some("kv")} :
       LET asked == ~IdentityFromEnv(shell_env)
           c == IF asked THEN AzIdentity ELSE EnvIdentity(shell_env)
           seeded == EnsureTfvars(files["workload"], c)
           vault == Or(override, TfvarsValue(seeded, "key_vault_name"))
       IN  /\ tcmds' = IF asked THEN Append(tcmds, TAccountShow) ELSE tcmds
           /\ texits' = IF asked THEN Append(texits, IF reply = "nonzero" THEN 1 ELSE 0)
                        ELSE texits
           /\ IF asked /\ reply = "nonzero"
              THEN TRaise(TokenError("ProcessFailed", <<TAccountShow.op>>)) /\ UNCHANGED files
              ELSE IF asked /\ reply = "unparsable"
              THEN TRaise(TokenError("IdentityResolutionFailed", <<>>)) /\ UNCHANGED files
              ELSE IF MissingVariableTemplate(files["workload"])
              THEN TRaise(TokenError("MissingVariableTemplate", <<>>)) /\ UNCHANGED files
              ELSE /\ files' = [files EXCEPT !["workload"] = seeded]
                   /\ IF vault = Nothing
                      THEN TRaise(TokenError("VaultNameRequired", <<>>))
                      ELSE tpc' = "load" /\ UNCHANGED tfailure
  /\ UNCHANGED <<nonTokenVars, runs, tpool, targs, secret, tokens, loaded, generated, listed>>

\* tokens = _load_tokens(vault, secret): the read fails when the secret is
\* absent or the vault cannot be reached
TLoad ==
  /\ tpc = "load"
  /\ \E reachable \in BOOLEAN :
       LET ok == reachable /\ secret # Nothing
       IN  /\ tcmds' = Append(tcmds, KvShow)
           /\ texits' = Append(texits, IF ok THEN 0 ELSE 1)
           /\ tokens' = IF ok THEN ParseTokens(AzShowOutput(secret[1])) ELSE LoadFailed
           /\ loaded' = tokens'
  /\ tpc' = "generate"
  /\ UNCHANGED <<nonTokenVars, runs, files, tpool, targs, secret, generated, listed, tfailure>>

\* for item in generate: ...
TGenerate ==
  /\ tpc = "generate"
  /\ LET out == GenerateAll(targs.generate, tokens, <<>>)
     IN  /\ tokens' = out.tokens
         /\ generated' = out.generated
         /\ IF out.error # Nothing THEN TRaise(out.error[1])
            ELSE tpc' = "add" /\ UNCHANGED tfailure
  /\ UNCHANGED <<nonTokenVars, runs, files, tpool, targs, secret, loaded, listed, tcmds, texits>>

\* for token in add: ...
TAdd ==
  /\ tpc = "add"
  /\ LET out == AddAll(targs.add, tokens)
     IN  /\ tokens' = out.tokens
         /\ IF out.error # Nothing THEN TRaise(out.error[1])
            ELSE tpc' = "remove" /\ UNCHANGED tfailure
  /\ UNCHANGED <<nonTokenVars, runs, files, tpool, targs, secret, loaded, generated, listed,
                 tcmds, texits>>

\* for token in remove: tokens.pop(token, None)
TRemove ==
  /\ tpc = "remove"
  /\ tokens' = RemoveAll(targs.remove, tokens)
  /\ tpc' = "finish"
  /\ UNCHANGED <<nonTokenVars, runs, files, tpool, targs, secret, loaded, generated, listed,
                 tcmds, texits, tfailure>>

\* the listing, or _save_tokens(vault, secret, tokens); the summary that is
\* printed after the write changes nothing
TFinish ==
  /\ tpc = "finish"
  /\ IF ListOnly(targs)
     THEN /\ listed' = Some([i \in 1..Len(SortedSeq(DOMAIN tokens)) |->
                               SortedSeq(DOMAIN tokens)[i] \o <<":">>
                                 \o tokens[SortedSeq(DOMAIN tokens)[i]]])
          /\ tpc' = "done"
          /\ UNCHANGED <<secret, tcmds, texits, tfailure>>
     ELSE \E ok \in BOOLEAN :
            /\ tcmds' = Append(tcmds, KvSet(Serialize(tokens)))
            /\ texits' = Append(texits, IF ok THEN 0 ELSE 1)
            /\ IF ok
               THEN /\ secret' = Some(Serialize(tokens))
                    /\ tpc' = "done"
                    /\ UNCHANGED tfailure
               ELSE /\ TRaise(TokenError("ProcessFailed", <<KvSet(Serialize(tokens)).op>>))
                    /\ UNCHANGED secret
            /\ UNCHANGED listed
  /\ UNCHANGED <<nonTokenVars, runs, files, tpool, targs, tokens, loaded, generated>>

TokenNext ==
  \/ TStart
  \/ TResolve
  \/ TLoad
  \/ TGenerate
  \/ TAdd
  \/ TRemove
  \/ TFinish

(***************************************************************************)
(* Specifications: one per part, the other parts parked                    *)
(***************************************************************************)
InitExec == ExecInit /\ PatchIdle /\ DeployIdle /\ SeedIdle /\ TokenIdle

SpecExec == InitExec /\ [][ExecNext]_vars

InitPatch == PatchInit /\ ExecParked /\ ExecIdle /\ DeployIdle /\ SeedIdle /\ TokenIdle

SpecPatch == InitPatch /\ [][PatchNext]_vars

InitDeploy == DeployInit /\ ExecParked /\ ExecIdle /\ PatchIdle /\ SeedIdle /\ TokenIdle

SpecDeploy == InitDeploy /\ [][DeployNext]_vars

\* azure_context() as the first step of a script, under every setting of
\* the four identity variables: unset, set to the empty string, or set to a
\* value of its own
IdentityValue ==
  [n \in IdentityVars |->
     CASE n = "AZURE_SUBSCRIPTION_ID" -> "sub-azure"
       [] n = "AZURE_TENANT_ID" -> "tenant-azure"
       [] n = "ARM_SUBSCRIPTION_ID" -> "sub-arm"
       [] n = "ARM_TENANT_ID" -> "tenant-arm"]
Settings(n) == {Nothing, Some(""), Some(IdentityValue[n])}
IdentityEnvs ==
  { [NoEnv EXCEPT !["AZURE_SUBSCRIPTION_ID"] = a, !["AZURE_TENANT_ID"] = b,
                  !["ARM_SUBSCRIPTION_ID"] = c, !["ARM_TENANT_ID"] = d] :
      a \in Settings("AZURE_SUBSCRIPTION_ID"), b \in Settings("AZURE_TENANT_ID"),
      c \in Settings("ARM_SUBSCRIPTION_ID"), d \in Settings("ARM_TENANT_ID") }

IdentityInit ==
  /\ workflow = "none"
  /\ dpc = "idle"
  /\ runs = 0
  /\ argv = NoArgs
  /\ shell_env \in IdentityEnvs
  /\ environ = NoEnv
  /\ files = [s \in Stacks |-> NoFiles]
  /\ state_file = FALSE
  /\ RunReset

InitIdentity == IdentityInit /\ ExecParked /\ ExecIdle /\ PatchIdle /\ SeedIdle /\ TokenIdle

IdentityNext == StartBootstrap \/ Ensure \/ AzureContext \/ ExportEnv

SpecIdentity == InitIdentity /\ [][IdentityNext]_vars

\* the deploy scripts started from a shell that names no identity, one
\* member of the primary pair, or the whole primary pair; both stack
\* directories hold an example
RunEnvs ==
  { [NoEnv EXCEPT !["AZURE_SUBSCRIPTION_ID"] = a, !["AZURE_TENANT_ID"] = b] :
      a \in {Nothing, Some("sub-env")}, b \in {Nothing, Some("tenant-env")} }

RunInit ==
  /\ workflow = "none"
  /\ dpc = "idle"
  /\ runs = 0
  /\ argv = NoArgs
  /\ shell_env \in RunEnvs
  /\ environ = NoEnv
  /\ files = [s \in Stacks |-> [NoFiles EXCEPT !["terraform.tfvars.example"] = Some(ExampleText)]]
  /\ state_file \in BOOLEAN
  /\ RunReset

InitRun == RunInit /\ ExecParked /\ ExecIdle /\ PatchIdle /\ SeedIdle /\ TokenIdle

SpecRun == InitRun /\ [][DeployNext]_vars

InitSeed == SeedInit /\ ExecParked /\ ExecIdle /\ PatchIdle /\ DeployIdle /\ TokenIdle

SpecSeed == InitSeed /\ [][SeedNext]_vars

\* manage_tokens alone: the workload directory holds an example, the
\* operator's environment names no identity
DeployAtRest ==
  /\ workflow = "none"
  /\ dpc = "idle"
  /\ runs = 0
  /\ argv = NoArgs
  /\ shell_env = NoEnv
  /\ environ = NoEnv
  /\ files = [s \in Stacks |-> [NoFiles EXCEPT !["terraform.tfvars.example"] = Some(ExampleText)]]
  /\ state_file = FALSE
  /\ RunReset

InitTokens == TokenInit /\ DeployAtRest /\ ExecParked /\ ExecIdle /\ PatchIdle /\ SeedIdle

SpecTokens == InitTokens /\ [][TokenNext]_vars

\* the three scripts, started by the operator one after the other: nothing
\* is deployed yet, both stack directories hold an example, the operator's
\* environment names no identity, the secret holds one entry
EngineInit ==
  /\ workflow = "none"
  /\ dpc = "idle"
  /\ runs = 0
  /\ argv = NoArgs
  /\ shell_env = NoEnv
  /\ environ = NoEnv
  /\ files = [s \in Stacks |-> [NoFiles EXCEPT !["terraform.tfvars.example"] = Some(ExampleText)]]
  /\ state_file = FALSE
  /\ RunReset
  /\ tpc = "idle"
  /\ tpool = FewTokenArgs
  /\ secret = Some(<<"a", ":", "x">>)
  /\ TokenReset

InitEngine == EngineInit /\ ExecParked /\ ExecIdle /\ PatchIdle /\ SeedIdle

EngineNext == DeployNext \/ TokenNext

SpecEngine == InitEngine /\ [][EngineNext]_vars

(***************************************************************************)
(* Command Executor: properties                                            *)
(***************************************************************************)
Written(s) == script[s]

\* C1: with capture enabled, run_logged returns or raises only after both
\* readers reached end-of-stream, and what it hands back holds every line
\* the process wrote to each stream, in the order written, with the exit
\* code of that same process.
C1_BuffersComplete ==
  (capture_output /\ ExecDone) =>
    /\ \A s \in Streams : rpc[s] = "done" /\ buffer[s] = Written(s)
    /\ outcome[1].stdout = Some(Flatten(Written("stdout")))
    /\ outcome[1].stderr = Some(Flatten(Written("stderr")))
    /\ outcome[1].returncode = script.rc

C1_Witness ==
  /\ capture_output
  /\ ExecDone
  /\ Len(Written("stdout")) = 2
  /\ Written("stdout")[1] # Written("stdout")[2]
  /\ Len(Written("stderr")) >= 1

\* C2: with capture enabled and echo = on_error nothing reaches the terminal
\* until the replay step; once the replay step is over (so before the
\* failure is raised) the terminal shows the whole stdout buffer followed by
\* the whole stderr buffer if the exit code is nonzero, and nothing if it
\* is zero.
C2_ReplayOnError ==
  (capture_output /\ echo = "on_error") =>
    IF mpc \in {"complete", "returned", "raised"}
    THEN terminal = IF script.rc # 0
                    THEN Tagged("stdout", Written("stdout"))
                           \o Tagged("stderr", Written("stderr"))
                    ELSE <<>>
    ELSE terminal = <<>>

C2_Witness ==
  /\ capture_output
  /\ echo = "on_error"
  /\ mpc = "raised"
  /\ Written("stdout") = << <<"A", NL>> >>
  /\ Written("stderr") = << <<"B", NL>> >>
  /\ Flatten([i \in 1..Len(terminal) |-> terminal[i][2]]) = <<"A", NL, "B", NL>>

\* C3: with capture enabled and check requested, a nonzero exit ends in a
\* CalledProcessError carrying the command, the exit code and the full
\* stdout and stderr text under every echo policy; under echo = never the
\* terminal stays empty throughout.
C3_FailureCarriesOutput ==
  /\ (capture_output /\ check /\ script.rc # 0 /\ ExecDone) =>
       /\ mpc = "raised"
       /\ outcome = Some(CalledProcessError(script.rc, cmd_list,
                                            Some(Flatten(Written("stdout"))),
                                            Some(Flatten(Written("stderr")))))
  /\ (capture_output /\ echo = "never") => terminal = <<>>

C3_Witness ==
  /\ capture_output
  /\ check
  /\ echo = "never"
  /\ mpc = "raised"
  /\ Written("stdout") # <<>>
  /\ Written("stderr") # <<>>

\* C4 as stated: in every mode a returned result carries the process output
\* as two joined strings, the exit code and the argument vector.
C4_Original ==
  mpc = "returned" =>
    outcome = Some(CompletedProcess(cmd_list, script.rc,
                                    Some(Flatten(Written("stdout"))),
                                    Some(Flatten(Written("stderr")))))

\* C4 (amended): a returned result always carries the exit code and the
\* argument vector; with capture enabled (under every echo policy) it also
\* carries stdout and stderr as two fully joined strings, with capture
\* disabled its stdout and stderr are None and the output went straight to
\* the terminal.
C4_ResultShape ==
  mpc = "returned" =>
    /\ outcome[1].kind = "CompletedProcess"
    /\ outcome[1].args = cmd_list
    /\ outcome[1].returncode = script.rc
    /\ IF capture_output
       THEN /\ outcome[1].stdout = Some(Flatten(Written("stdout")))
            /\ outcome[1].stderr = Some(Flatten(Written("stderr")))
       ELSE /\ outcome[1].stdout = Nothing
            /\ outcome[1].stderr = Nothing
            /\ \A s \in Streams :
                 Cardinality({i \in 1..Len(terminal) : terminal[i][1] = s})
                   = Len(Written(s))

C4_Witness ==
  /\ mpc = "returned"
  /\ ~capture_output
  /\ Written("stdout") # <<>>
  /\ outcome[1].stdout = Nothing

(***************************************************************************)
(* Config Patcher: properties                                              *)
(* K ranges over identifier keys, V over values without a line break.      *)
(***************************************************************************)
\* the text the i-th upsert produced
After(i) == IF i < Len(patches) THEN patches[i + 1].before ELSE content

TrailingNewlines(t) == Len(t) - Len(RStripNewlines(t))

RemoveAt(seq, i) == SubSeq(seq, 1, i - 1) \o SubSeq(seq, i + 1, Len(seq))

Assigning(lines, key) == SelectSeq(lines, LAMBDA l : Matches(l, key))
Unrelated(lines, key) == SelectSeq(lines, LAMBDA l : ~Matches(l, key))

\* lines without an empty last line
DropLastBlank(lines) ==
  IF lines # <<>> /\ lines[Len(lines)] = <<>>
  THEN SubSeq(lines, 1, Len(lines) - 1) ELSE lines

DoubleUpsert == Len(patches) = 2 /\ patches[1].key = patches[2].key

\* C5 as stated: upsert(upsert(T,K,V1),K,V2) has exactly one line assigning
\* K, it assigns V2, and the lines of T unrelated to K are all there,
\* unchanged and in order.
C5_Original ==
  DoubleUpsert =>
    LET K == patches[1].key
        T == SplitLines(patches[1].before)
        R == SplitLines(content)
    IN  /\ Len(Assigning(R, K)) = 1
        /\ \A i \in MatchingLines(R, K) : Strip(R[i]) = NewLine(K, patches[2].value)
        /\ Unrelated(R, K) = Unrelated(T, K)

\* C5 (amended): in upsert(upsert(T,K,V1),K,V2) the first line assigning K
\* assigns V2 and keeps the indentation that line had in T; it is the only
\* line assigning K when T had at most one, and further (duplicate)
\* assignments of K in T stay as they were; the lines of T unrelated to K
\* are all there, unchanged and in order, except that when T already
\* assigned K up to two empty lines at the very end of T (one per upsert)
\* are dropped.
C5_DoubleUpsert ==
  DoubleUpsert =>
    LET K == patches[1].key
        T == SplitLines(patches[1].before)
        R == SplitLines(content)
        had == MatchingLines(T, K) # {}
        first == R[Least(MatchingLines(R, K))]
    IN  /\ MatchingLines(R, K) # {}
        /\ Strip(first) = NewLine(K, patches[2].value)
        /\ Len(Assigning(R, K)) = IF had THEN Len(Assigning(T, K)) ELSE 1
        /\ had => /\ Indent(first) = Indent(T[Least(MatchingLines(T, K))])
                  /\ Tail(Assigning(R, K)) = Tail(Assigning(T, K))
        /\ Unrelated(R, K) =
             Unrelated(IF had THEN DropLastBlank(DropLastBlank(T)) ELSE T, K)

C5_Witness ==
  /\ DoubleUpsert
  /\ patches[1].value # patches[2].value
  /\ Len(Assigning(SplitLines(patches[1].before), patches[1].key)) = 2
  /\ Len(Assigning(SplitLines(content), patches[1].key)) = 2

C8_AppendWhenAbsent ==
  \A i \in 1..Len(patches) :
    LET K == patches[i].key
        T == SplitLines(patches[i].before)
    IN  MatchingLines(T, K) = {} =>
          /\ SplitLines(After(i)) = Append(T, NewLine(K, patches[i].value))
          /\ TrailingNewlines(After(i)) = 1

C8_Witness ==
  \E i \in 1..Len(patches) :
    LET K == patches[i].key
        T == SplitLines(patches[i].before)
    IN  /\ MatchingLines(T, K) = {}
        /\ TrailingNewlines(patches[i].before) >= 2
        /\ \E j \in 1..Len(T) : T[j] # <<>>
        /\ SplitLines(After(i)) = Append(T, NewLine(K, patches[i].value))

(***************************************************************************)
(* Stack Lifecycle Controller: properties                                  *)
(***************************************************************************)
Issued(pred(_)) == {i \in 1..Len(cmds) : pred(cmds[i])}
TerraformOn(stack, ops) ==
  Issued(LAMBDA c : c.tool = "terraform" /\ c.stack = stack /\ c.op \in ops)
AnyTerraform == Issued(LAMBDA c : c.tool = "terraform")

\* the positions of a workload run that come after load_bootstrap_state's
\* existence check has passed
PastStateCheck ==
  dpc \in {"bs_init", "bs_output", "bs_map", "update_tfvars", "init_remote", "plan",
           "apply", "log_endpoints", "done"}

\* C9: in a workload run the workload stack's remote-backend init comes only
\* after the bootstrap state file was found and the bootstrap outputs were
\* read (local init, then output, of the bootstrap stack) in the same run;
\* with the state file absent the run never gets past the check, it ends
\* with UpstreamNotBootstrapped, and it has run no terraform command on any
\* stack.
C9_UpstreamFirst ==
  workflow = "workload" =>
    /\ \A i \in TerraformOn("workload", {"init-remote"}) :
         /\ state_file
         /\ outputs # Nothing
         /\ \E j \in 1..(i - 1) :
              /\ cmds[j] = TerraformOutput("bootstrap")
              /\ \E k \in 1..(j - 1) : cmds[k] = TerraformInitLocal("bootstrap")
    /\ ~state_file =>
         /\ ~PastStateCheck
         /\ AnyTerraform = {}
         /\ bootstrap_state = Nothing
    /\ (failure # Nothing /\ failure[1].error = "UpstreamNotBootstrapped") =>
         ~state_file /\ dpc = "failed"

C9_Witness ==
  /\ workflow = "workload"
  /\ failure = Some(Error("UpstreamNotBootstrapped", Env))
  /\ ~state_file
  /\ cmds # <<>>
  /\ AnyTerraform = {}

NoValue(o, k) == o[k] = Absent \/ o[k] = Null

\* C10: when one of the four required bootstrap outputs is missing or has no
\* value, the mapping fails with MissingStackOutput naming such a field, no
\* BootstrapState exists, and the run has ended without remote init, plan
\* or apply of the workload stack; a BootstrapState that exists carries the
\* four output values as they were read, none defaulted or empty.
C10_MissingStackOutput ==
  workflow = "workload" =>
    /\ (outputs # Nothing /\ dpc # "bs_map"
          /\ \E k \in OutputNames : NoValue(outputs[1], k)) =>
         /\ dpc = "failed"
         /\ failure # Nothing
         /\ failure[1].error = "MissingStackOutput"
         /\ failure[1].detail \in {k \in OutputNames : NoValue(outputs[1], k)}
         /\ bootstrap_state = Nothing
         /\ TerraformOn("workload", {"init-remote", "plan", "apply"}) = {}
    /\ bootstrap_state # Nothing =>
         /\ outputs # Nothing
         /\ bootstrap_state[1] =
              [resource_group |-> outputs[1]["state_rg_name"],
               storage_account |-> outputs[1]["state_storage_account_name"],
               container |-> outputs[1]["state_container_name"],
               blob_key |-> outputs[1]["state_blob_key"]]
         /\ \A k \in OutputNames : ~NoValue(outputs[1], k) /\ outputs[1][k] # ""
    /\ \A i \in TerraformOn("workload", {"init-remote"}) :
         /\ bootstrap_state # Nothing
         /\ cmds[i] = TerraformInitRemote("workload", ctx[1].tenant_id, bootstrap_state[1])

C10_Witness ==
  /\ workflow = "workload"
  /\ failure = Some(Error("MissingStackOutput", "state_container_name"))
  /\ outputs[1]["state_rg_name"] = "rg-state"
  /\ outputs[1]["state_blob_key"] = Null
  /\ bootstrap_state = Nothing

(***************************************************************************)
(* Properties of ensure_tfvars (SpecSeed)                                  *)
(***************************************************************************)
SeedKeys == <<"subscription_id", "tenant_id", "environment_code">>
SeedValue(c, k) ==
  IF k = "subscription_id" THEN c.subscription_id
  ELSE IF k = "tenant_id" THEN c.tenant_id ELSE Env

\* the example a seeding call must use: the first candidate that exists
PresentExamples(dir) == {i \in 1..Len(ExampleCandidates) : dir[ExampleCandidates[i]] # Nothing}
FirstPresent(dir) == CHOOSE i \in PresentExamples(dir) : \A j \in PresentExamples(dir) : i <= j

WithoutFirst(lines, k) ==
  IF MatchingLines(lines, <<k>>) = {} THEN lines
  ELSE RemoveAt(lines, Least(MatchingLines(lines, <<k>>)))
\* the lines other than the first assignment of each of the three keys
OtherLines(lines) ==
  WithoutFirst(WithoutFirst(WithoutFirst(lines, SeedKeys[1]), SeedKeys[2]), SeedKeys[3])

\* a line that assigns k the value v, whatever its indentation
AssignsValue(line, k, v) == Matches(line, <<k>>) /\ LStrip(line) = NewLine(<<k>>, <<v>>)
HasAssignment(lines, k, v) == \E i \in 1..Len(lines) : AssignsValue(lines[i], k, v)

\* the empty lines at the very end
TrailingEmpty(lines) ==
  Len(lines) - (IF \A i \in 1..Len(lines) : lines[i] = <<>> THEN 0
                ELSE Greatest({i \in 1..Len(lines) : lines[i] # <<>>}))
\* how many of the keys, taken in the order they are upserted, are assigned
\* before the first one that is not
AssignedPrefix(lines) ==
  Cardinality({n \in 1..Len(SeedKeys) : \A m \in 1..n : MatchingLines(lines, <<SeedKeys[m]>>) # {}})
Min(a, b) == IF a <= b THEN a ELSE b
Max(a, b) == IF a >= b THEN a ELSE b
DropLast(lines, d) == SubSeq(lines, 1, Len(lines) - d)

Seeding(e) == e.before[Target] = Nothing

NoStaleValue(e) ==
  LET out == SplitLines(e.after[Target][1]) IN
  \A i \in 1..Len(SeedKeys) : \A j \in MatchingLines(out, <<SeedKeys[i]>>) :
    AssignsValue(out[j], SeedKeys[i], SeedValue(e.ctx, SeedKeys[i]))

\* call n repeats call n - 1: same identity, same environment, both succeeded
Repeats(n) ==
  /\ n > 1
  /\ seed_log[n].error = Nothing
  /\ seed_log[n - 1].error = Nothing
  /\ seed_log[n].ctx = seed_log[n - 1].ctx

\* C12: after any sequence of seeding calls on the same file the file assigns
\* subscription_id, tenant_id and environment_code exactly the values of the
\* latest call, with no stale value for those keys left, and a second call
\* with the same identity and environment leaves the file byte-for-byte
\* unchanged.
C12_SeedingIdempotent ==
  \A n \in 1..Len(seed_log) :
    /\ seed_log[n].error = Nothing =>
         /\ \A i \in 1..Len(SeedKeys) :
              HasAssignment(SplitLines(seed_log[n].after[Target][1]), SeedKeys[i],
                            SeedValue(seed_log[n].ctx, SeedKeys[i]))
         /\ NoStaleValue(seed_log[n])
    /\ Repeats(n) => seed_log[n].after = seed_log[n - 1].after

\* a repeated call that changed the file: it assigned all three keys once
\* and ended in several empty lines
C12_Witness ==
  /\ Len(seed_log) >= 2
  /\ Repeats(2)
  /\ NoStaleValue(seed_log[1])
  /\ seed_log[2].after # seed_log[1].after

(***************************************************************************)
(* Properties of the stack lifecycle (SpecDeploy)                          *)
(***************************************************************************)
\* the lifecycle commands of a stack, in order
Lifecycle(stack) ==
  <<IF stack = "bootstrap" THEN "init-local" ELSE "init-remote", "plan", "apply">>

IsLifecycle(c) ==
  c.tool = "terraform" /\ c.stack = workflow /\ c.op \in {"init-local", "init-remote", "plan", "apply"}
\* the lifecycle commands the run has issued on its own stack
OwnOps == [i \in 1..Len(SelectSeq(cmds, IsLifecycle)) |-> SelectSeq(cmds, IsLifecycle)[i].op]

IsPrefix(a, b) == Len(a) <= Len(b) /\ a = SubSeq(b, 1, Len(a))

\* the variable file of the run's stack assigns the identity of the run
SeededFor(stack) ==
  /\ files[stack][Target] # Nothing
  /\ ctx # Nothing
  /\ \A i \in 1..Len(SeedKeys) :
       HasAssignment(SplitLines(files[stack][Target][1]), SeedKeys[i],
                     SeedValue(ctx[1], SeedKeys[i]))

FailedAt(op) == failure # Nothing /\ failure[1] = Error("ProcessFailed", op)

\* C13: in every run of deploy_bootstrap and deploy_workload the stack of the
\* run moves only forward through seeded, initialized, planned, applied: the
\* lifecycle commands issued are a prefix of init, plan, apply (each at most
\* once, in that order), the first only with the variable file seeded; a
\* command that exits nonzero is the last command of the run, so plan follows
\* only a successful init and apply only a successful plan; a failed apply is
\* followed by nothing (no rollback), and a workload run never plans or
\* applies the bootstrap stack.
C13_StackLifecycle ==
  workflow \in Stacks =>
    /\ IsPrefix(OwnOps, Lifecycle(workflow))
    /\ OwnOps # <<>> => SeededFor(workflow)
    /\ failure # Nothing =>
         /\ dpc = "failed"
         /\ failure[1].error = "ProcessFailed" =>
              /\ cmds # <<>>
              /\ cmds[Len(cmds)].op = failure[1].detail
    /\ dpc = "failed" => failure # Nothing
    /\ FailedAt("apply") =>
         /\ OwnOps = Lifecycle(workflow)
         /\ cmds[Len(cmds)] = TerraformApply(workflow)
    /\ workflow = "workload" => TerraformOn("bootstrap", {"plan", "apply", "init-remote"}) = {}
    /\ workflow = "bootstrap" => TerraformOn("workload", {"init-local", "init-remote", "plan", "apply", "output"}) = {}

\* a workload run whose apply exited nonzero after init and plan succeeded
C13_Witness ==
  /\ workflow = "workload"
  /\ FailedAt("apply")
  /\ OwnOps = Lifecycle("workload")
  /\ dpc = "failed"

(***************************************************************************)
(* Properties of the token registry (SpecTokens)                           *)
(***************************************************************************)
Reads == {i \in 1..Len(tcmds) : tcmds[i] = KvShow}
Writes == {i \in 1..Len(tcmds) : tcmds[i].op = "keyvault secret set"}
ReadSucceeded == \E i \in Reads : texits[i] = 0
ReadFailed == \E i \in Reads : texits[i] = 1

\* what insert validation accepts: no ":" and no ";", not empty, no blank at
\* either end
Insertable(c) ==
  /\ c # <<>>
  /\ \A i \in 1..Len(c) : c[i] \notin {":", ";"}
  /\ c[1] \notin PyWhitespace
  /\ c[Len(c)] \notin PyWhitespace
ValidTokenSet(d) == \A n \in DOMAIN d : Insertable(n) /\ Insertable(d[n])

\* C15: for every valid TokenSet S that the script writes,
\* serialize(parse(serialize(S))) = serialize(S).
C15_RoundTrip ==
  \A i \in Writes :
    ValidTokenSet(tokens) =>
      /\ tcmds[i].value[1] = Serialize(tokens)
      /\ Serialize(ParseTokens(tcmds[i].value[1])) = tcmds[i].value[1]

\* a valid set was written whose text does not parse back to it: a value
\* holds a comma
C15_Witness ==
  /\ tpc = "done"
  /\ Writes # {}
  /\ ValidTokenSet(tokens)
  /\ <<"generated-", "1">> \in DOMAIN tokens
  /\ tokens[<<"generated-", "1">>] = <<"v", ",", "w">>
  /\ secret = Some(Serialize(tokens))
  /\ ParseTokens(secret[1]) # tokens

\* the non-empty entries of a raw secret text, in encounter order
RawEntries(raw) ==
  SelectSeq([i \in 1..Len(Split(ReplaceDelimiters(raw), ";")) |->
               StripAll(Split(ReplaceDelimiters(raw), ";")[i])],
            LAMBDA e : e # <<>>)
Named(e) == \E i \in 1..Len(e) : e[i] = ":"
\* how many of the first i entries have no separator
Unnamed(entries, i) == Cardinality({j \in 1..i : ~Named(entries[j])})
EntryName(entries, i) ==
  IF Named(entries[i]) THEN StripAll(BeforeFirst(entries[i], ":"))
  ELSE LegacyName(Unnamed(entries, i))
EntryValue(entries, i) ==
  IF Named(entries[i]) THEN StripAll(AfterFirst(entries[i], ":")) ELSE entries[i]

\* C19: parsing never drops an entry: every non-empty entry of the raw text
\* is in the parsed set, one with a separator under its own name and one
\* without under legacy-<n> (1-based, in encounter order), so that every raw
\* value is retrievable and the set has as many entries as the text has
\* entries with distinct names.
C19_NoEntryDropped ==
  (tpc = "generate" /\ ReadSucceeded) =>
    LET entries == RawEntries(secret[1]) IN
    /\ \A i \in 1..Len(entries) :
         /\ EntryName(entries, i) \in DOMAIN loaded
         /\ loaded[EntryName(entries, i)] = EntryValue(entries, i)
    /\ Cardinality(DOMAIN loaded) =
         Cardinality({EntryName(entries, i) : i \in 1..Len(entries)})

\* the text "legacy-1:w;y" was read: the unnamed entry took the name of the
\* first one, whose value is gone
C19_Witness ==
  /\ tpc = "generate"
  /\ ReadSucceeded
  /\ secret = Some(<<"legacy-", "1", ":", "w", ";", "y">>)
  /\ loaded = [n \in {<<"legacy-", "1">>} |-> <<"y">>]

\* the entries the generate list asks for, in order: "numeric" for each of
\* the N of a numeric item, the stripped name for a named item
RECURSIVE Requested(_)
Requested(items) ==
  IF items = <<>> THEN <<>>
  ELSE (IF \A i \in 1..Len(Head(items)) : IsDigitChar(Head(items)[i])
        THEN [i \in 1..IntOf(Head(items)) |-> "numeric"]
        ELSE IF StripAll(Head(items)) = <<>> THEN <<>>
        ELSE <<StripAll(Head(items))>>)
       \o Requested(Tail(items))

GeneratedNames(k) == {generated[j][1] : j \in 1..k}
\* the names in the set when the k-th entry was generated
NamesBefore(k) == DOMAIN loaded \cup GeneratedNames(k - 1)
\* the smallest suffix, from 1, of a generated-<n> that is not in S
SmallestUnused(S) ==
  CHOOSE n \in 1..(Cardinality(S) + 1) :
    /\ GeneratedName(n) \notin S
    /\ \A m \in 1..(n - 1) : GeneratedName(m) \in S

PastGenerate == tpc \in {"add", "remove", "finish", "done"}

\* C16: a request for N tokens creates exactly N new entries generated-<n>,
\* each with the smallest suffix (from 1) unused in the set at the moment it
\* is created, and overwrites no entry.
C16_NumericGenerate ==
  /\ \A k \in 1..Len(generated) :
       /\ k <= Len(Requested(targs.generate))
       /\ generated[k][1] \notin NamesBefore(k)
       /\ Requested(targs.generate)[k] = "numeric" =>
            generated[k][1] = GeneratedName(SmallestUnused(NamesBefore(k)))
  /\ PastGenerate => Len(generated) = Len(Requested(targs.generate))
  /\ tpc = "add" =>
       /\ DOMAIN tokens = DOMAIN loaded \cup GeneratedNames(Len(generated))
       /\ \A n \in DOMAIN loaded : tokens[n] = loaded[n]
       /\ \A k \in 1..Len(generated) : tokens[generated[k][1]] = generated[k][2]

\* two tokens were requested with generated-2 in the set
C16_Witness ==
  /\ tpc = "add"
  /\ targs.generate = << <<"2">> >>
  /\ <<"generated-", "2">> \in DOMAIN loaded
  /\ generated[1][1] = <<"generated-", "1">>
  /\ generated[2][1] = <<"generated-", "3">>

\* the value the add list gives a name: that of the last item naming it
AddedNames == {StripAll(BeforeFirst(targs.add[i], IF Named(targs.add[i]) THEN ":" ELSE "=")) :
                 i \in 1..Len(targs.add)}
LastAdded(n) ==
  LET hits == {i \in 1..Len(targs.add) :
                 StripAll(BeforeFirst(targs.add[i], IF Named(targs.add[i]) THEN ":" ELSE "=")) = n}
      i == CHOOSE j \in hits : \A k \in hits : k <= j
  IN  StripAll(AfterFirst(targs.add[i], IF Named(targs.add[i]) THEN ":" ELSE "="))
\* an add item that has a separator and two insertable components
WellFormed(item) ==
  /\ \E i \in 1..Len(item) : item[i] \in {":", "="}
  /\ Insertable(StripAll(BeforeFirst(item, IF Named(item) THEN ":" ELSE "=")))
  /\ Insertable(StripAll(AfterFirst(item, IF Named(item) THEN ":" ELSE "=")))

FailedWith(name) == tfailure # Nothing /\ tfailure[1].error = name

\* C17: adding a name that is in the set (loaded, or generated earlier in the
\* call) never raises and the added value replaces the old one; generating a
\* non-numeric name that is in the set (loaded, or generated earlier in the
\* call) always fails with TokenNameCollision.
C17_Collisions ==
  /\ tpc = "remove" =>
       \A n \in AddedNames : n \in DOMAIN tokens /\ tokens[n] = LastAdded(n)
  /\ (/\ Reads # {}
      /\ Len(generated) = Len(Requested(targs.generate))
      /\ \A i \in 1..Len(targs.add) : WellFormed(targs.add[i])
      /\ tfailure # Nothing) =>
       FailedWith("ProcessFailed") /\ Writes # {}
  /\ \A k \in 1..Len(generated) :
       Requested(targs.generate)[k] # "numeric" =>
         /\ generated[k][1] = Requested(targs.generate)[k]
         /\ generated[k][1] \notin NamesBefore(k)
  /\ (/\ Reads # {}
      /\ tpc # "generate"
      /\ Len(generated) < Len(Requested(targs.generate))) =>
       LET next == Requested(targs.generate)[Len(generated) + 1] IN
       /\ next # "numeric"
       /\ tpc = "failed"
       /\ next \in NamesBefore(Len(generated) + 1) => FailedWith("TokenNameCollision")
       /\ FailedWith("TokenNameCollision") =>
            /\ tfailure[1].detail = next
            /\ next \in NamesBefore(Len(generated) + 1)
       /\ Writes = {}

\* generating the name generated-1 right after the numeric request took it
C17_Witness ==
  /\ tpc = "failed"
  /\ tfailure = Some(TokenError("TokenNameCollision", <<"generated-", "1">>))
  /\ Len(generated) = 1
  /\ generated[1][1] = <<"generated-", "1">>
  /\ <<"generated-", "1">> \notin DOMAIN loaded

\* --list with empty add, remove and generate lists
NothingRequested ==
  /\ targs.list_only
  /\ Len(targs.add) = 0
  /\ Len(targs.remove) = 0
  /\ Len(targs.generate) = 0

\* the names of a serialized set are in ascending order
Ascending(text) ==
  LET entries == Split(text, ";")
  IN  \A i \in 1..(Len(entries) - 1) :
        Less(BeforeFirst(entries[i], ":"), BeforeFirst(entries[i + 1], ":"))

\* C18: a call writes nothing to the secret store if and only if --list was
\* requested and the add, remove and generate lists are all empty; every other
\* call that does not fail issues exactly one write, of the whole set in
\* sorted-by-name order, after all mutations, even when the set is the one
\* that was loaded.
C18_WriteRule ==
  /\ Cardinality(Writes) <= 1
  /\ Writes # {} =>
       /\ tpc \in {"done", "failed"}
       /\ Writes = {Len(tcmds)}
       /\ ~NothingRequested
       /\ tcmds[Len(tcmds)].value[1] = Serialize(tokens)
       /\ Ascending(tcmds[Len(tcmds)].value[1])
       /\ texits[Len(tcmds)] = 0 => tpc = "done" /\ secret = tcmds[Len(tcmds)].value
       /\ texits[Len(tcmds)] = 1 => FailedWith("ProcessFailed")
  /\ tpc = "done" => (Writes = {} <=> NothingRequested)
  /\ (tpc = "done" /\ NothingRequested) => listed # Nothing

\* a call with nothing to do and no --list wrote back the two entries it had
\* loaded
C18_Witness ==
  /\ tpc = "done"
  /\ targs = NoTokenArgs
  /\ Cardinality(DOMAIN loaded) = 2
  /\ tokens = loaded
  /\ Cardinality(Writes) = 1
  /\ secret = Some(Serialize(loaded))

\* the set a call builds from nothing: the generated entries, then the added
\* ones, without the removed names
BuiltNames ==
  (GeneratedNames(Len(generated)) \cup AddedNames) \
    {targs.remove[i] : i \in 1..Len(targs.remove)}
BuiltValue(n) ==
  IF n \in AddedNames THEN LastAdded(n)
  ELSE generated[CHOOSE k \in 1..Len(generated) : generated[k][1] = n][2]

\* C20: when reading the secret fails (secret absent or store unreachable)
\* the call does not fail: it goes on with an empty set, and the value it
\* writes back holds exactly the entries generated and added in the call
\* minus the removed names.
C20_ReadFailure ==
  ReadFailed =>
    /\ loaded = EmptyDict
    /\ tpc = "generate" => tfailure = Nothing /\ tokens = EmptyDict
    /\ \A i \in Writes :
         /\ DOMAIN tokens = BuiltNames
         /\ \A n \in BuiltNames : tokens[n] = BuiltValue(n)
         /\ tcmds[i].value[1] = Serialize(tokens)
    /\ (tpc = "done" /\ ~NothingRequested) => Writes # {}

\* the read failed: the value written back holds the one generated entry
\* only
C20_Witness ==
  /\ tpc = "done"
  /\ ReadFailed
  /\ targs.generate = << <<"bob">> >>
  /\ targs.add = <<>>
  /\ secret = Some(<<"bob", ":", "random-", "1">>)

\* ---- C14: retries and swallowed failures, over all three scripts ----

\* the version-control queries of derive_image_tag
GitQueries == {GitRevParse, GitDiffCached, GitDiff}

\* the commands of the deploy scripts, and of the token script, that exited
\* with a nonzero code
FailedCmds == {i \in 1..Len(cmds) : exits[i] = 1}
TFailedCmds == {i \in 1..Len(tcmds) : texits[i] = 1}

\* the failed command is the last one the script issued, and the script
\* ended with the failure
EndsRun(i) == i = Len(cmds) /\ dpc = "failed" /\ failure # Nothing
TEndsRun(i) == i = Len(tcmds) /\ tpc = "failed" /\ tfailure # Nothing

\* no command that failed is issued again by the same script
NoRetries ==
  /\ \A i \in FailedCmds : \A j \in (i + 1)..Len(cmds) : cmds[j] # cmds[i]
  /\ \A i \in TFailedCmds : \A j \in (i + 1)..Len(tcmds) : tcmds[j] # tcmds[i]

\* C14 as stated: no command is retried, and every command that exits with
\* a nonzero code ends the script with a failure
C14_Original ==
  /\ NoRetries
  /\ \A i \in FailedCmds : EndsRun(i)
  /\ \A i \in TFailedCmds : TEndsRun(i)

\* C14, amended: no command is retried, and every command that exits with a
\* nonzero code ends the script with a failure, except the version-control
\* queries of the tag derivation and the read of the token secret, after
\* which the script goes on
C14_NoRetriesNoSwallow ==
  /\ NoRetries
  /\ \A i \in FailedCmds : cmds[i] \in GitQueries \/ EndsRun(i)
  /\ \A i \in TFailedCmds : tcmds[i] = KvShow \/ TEndsRun(i)

\* the token script went on after a failed read and finished; the workload
\* script, started afterwards, found no commit, went on with the build and
\* ended at a later command that failed
C14_Witness ==
  /\ tpc = "done"
  /\ ReadFailed
  /\ workflow = "workload"
  /\ \E i \in FailedCmds : cmds[i] = GitRevParse /\ i < Len(cmds)
  /\ \E i \in FailedCmds : cmds[i] \notin GitQueries /\ EndsRun(i)

\* ---- C23: the wait on process exit and the joins of the readers ----

\* both _reader threads have seen end-of-stream and returned
Drained == \A s \in Streams : rpc[s] = "done"

\* proc.wait() has returned its value to run_logged
ExitObserved == returncode # Nothing

\* C23 as stated: with capture enabled the exit code is observed only after
\* both readers have drained their streams
C23_Original == (capture_output /\ ExitObserved) => Drained

\* C23, amended: with capture enabled proc.wait() returns the exit code
\* once the process has exited, before the readers are joined and possibly
\* while lines are still unread in a pipe; the exit code is used (for the
\* replay decision, the result and the failure) only after both readers
\* have drained their streams, and it is the exit code of the process.
C23_WaitThenJoin ==
  capture_output =>
    /\ ExitObserved => proc.state = "exited" /\ returncode = Some(script.rc)
    /\ mpc = "join" => ExitObserved
    /\ mpc \in {"replay", "complete", "returned", "raised"} => ExitObserved /\ Drained
    /\ ~ExitObserved => mpc \in {"call", "start", "wait"}

\* the exit code is in hand while a reader has not started on the line in
\* its pipe
C23_Witness ==
  /\ capture_output
  /\ ExitObserved
  /\ mpc = "join"
  /\ \E s \in Streams : pipe[s] # <<>> /\ buffer[s] = <<>> /\ rpc[s] = "read"

\* ---- C21: when build_and_push records the registry and the image ----

\* the quoted value of the first assignment of key in the variable file,
\* Nothing without the file or the assignment
Recorded(dir, key) ==
  IF dir[Target] = Nothing THEN Nothing
  ELSE LET lines == SplitLines(dir[Target][1])
       IN  IF MatchingLines(lines, <<key>>) = {} THEN Nothing
           ELSE LET line == Strip(lines[FirstMatch(lines, <<key>>)])
                    rhs == Strip(SubSeq(line, Len(BeforeFirst(line, "=")) + 2, Len(line)))
                IN  Some(SubSeq(rhs, 2, Len(rhs) - 1))

\* the registry and image keys of the workload variable file
RecordedKeys(f) ==
  <<Recorded(f["workload"], "registry_login_server"), Recorded(f["workload"], "container_image")>>

\* among the lines, the first one that starts with the key is key = "value"
Assigned(lines, key, value) ==
  \E j \in 1..Len(lines) :
    /\ lines[j] = <<key, " ", "=", " ", "\"">> \o value \o <<"\"">>
    /\ \A k \in 1..(j - 1) : lines[k] = <<>> \/ lines[k][1] # key

\* the tag of the reference build_and_push computed
TagOf(full_image) == full_image[Len(full_image)]

\* command i of the run is the last command of the build step, told to
\* publish the image of the reference, and it succeeded: docker push after a
\* successful docker build of the same reference, or az acr run on the
\* registry named by the first label of the login server
PublishedAt(i) ==
  /\ i \in 1..Len(cmds)
  /\ exits[i] = 0
  /\ bp.full_image # Nothing
  /\ bp.full_image[1] = <<bp.login_server[1], "/", "az-reader", ":", TagOf(bp.full_image[1])>>
  /\ IF argv.local_docker
     THEN /\ cmds[i].tool = "docker" /\ cmds[i].op = "push"
          /\ cmds[i].image = bp.full_image
          /\ i > 1 /\ cmds[i - 1].tool = "docker" /\ cmds[i - 1].op = "build"
          /\ cmds[i - 1].image = bp.full_image /\ exits[i - 1] = 0
     ELSE /\ cmds[i].tool = "az" /\ cmds[i].op = "acr run"
          /\ cmds[i].image # Nothing
          /\ cmds[i].image[1][1] \in {"myacr", "registry"}
          /\ bp.login_server[1] \in {"myacr.azurecr.io", "registry.example.com"}
          /\ (cmds[i].image[1][1] = "myacr") = (bp.login_server[1] = "myacr.azurecr.io")
          /\ Tail(cmds[i].image[1]) = <<"az-reader", ":", TagOf(bp.full_image[1])>>

Published == \E i \in 1..Len(cmds) : PublishedAt(i)

\* the run is past the recording step of build_and_push
PastRecord ==
  /\ workflow = "workload"
  /\ \E i \in 1..Len(cmds) : cmds[i].op \in {"push", "acr run"} /\ exits[i] = 0
  /\ dpc # "bp_record"

\* C21: the registry and image keys of the workload variable file change
\* only in the recording step of build_and_push (or when the file is created
\* from an example), the recording step is reached only right after a
\* successful push or managed build of the computed reference, and from then
\* on the file holds the login server and that reference; a run that fails
\* at an include path, the build or the push leaves both keys as they were.
C21_RecordAfterBuild ==
  /\ [](/\ dpc = "bp_record" => PublishedAt(Len(cmds))
        /\ PastRecord =>
             /\ Published
             /\ LET lines == SplitLines(files["workload"][Target][1])
                IN  /\ Assigned(lines, "registry_login_server", <<bp.login_server[1]>>)
                    /\ Assigned(lines, "container_image", bp.full_image[1]))
  /\ [][(files' # files /\ RecordedKeys(files') # RecordedKeys(files)) =>
          \/ dpc = "bp_record" /\ dpc' = "load_state"
          \/ files["workload"][Target] = Nothing]_vars

\* the second workload run failed at the push of a new reference: the file
\* still holds the registry and the reference the first run recorded
C21_Witness ==
  /\ workflow = "workload"
  /\ runs = 2
  /\ failure = Some(Error("ProcessFailed", "push"))
  /\ Recorded(files["workload"], "container_image") # Nothing
  /\ Recorded(files["workload"], "container_image") # bp.full_image
  /\ Recorded(files["workload"], "registry_login_server") # Some(<<bp.login_server[1]>>)

\* ---- C22: which identity azure_context returns ----

\* a variable is set: present and not the empty string
IsSet(e, n) == Truthy(e[n])

PrimaryComplete(e) == IsSet(e, "AZURE_SUBSCRIPTION_ID") /\ IsSet(e, "AZURE_TENANT_ID")
FallbackComplete(e) == IsSet(e, "ARM_SUBSCRIPTION_ID") /\ IsSet(e, "ARM_TENANT_ID")
PrimaryPair(e) ==
  [subscription_id |-> e["AZURE_SUBSCRIPTION_ID"][1], tenant_id |-> e["AZURE_TENANT_ID"][1]]
FallbackPair(e) ==
  [subscription_id |-> e["ARM_SUBSCRIPTION_ID"][1], tenant_id |-> e["ARM_TENANT_ID"][1]]

\* the complete pairs of the environment
CompletePairs(e) ==
  (IF PrimaryComplete(e) THEN {PrimaryPair(e)} ELSE {})
    \cup (IF FallbackComplete(e) THEN {FallbackPair(e)} ELSE {})

\* the first azure_context() of the run has returned or raised; the script
\* has not yet exported anything, so os.environ is the operator's
Resolving ==
  \/ dpc = "export"
  \/ dpc = "failed" /\ failure[1].error \in {"ProcessFailed", "IdentityResolutionFailed"}

QueriedAz == \E i \in 1..Len(cmds) : cmds[i] = AzAccountShow

\* C22 as stated: with a complete pair in the environment azure_context
\* returns the subscription and tenant of a complete pair and runs no
\* command; without a complete pair it runs az account show.
C22_CompletePairWins ==
  Resolving =>
    IF CompletePairs(shell_env) # {}
    THEN ~QueriedAz /\ ctx # Nothing /\ ctx[1] \in CompletePairs(shell_env)
    ELSE QueriedAz

\* only the fallback pair is complete, and the primary subscription is set:
\* the identity returned is the primary subscription with the fallback
\* tenant, which no pair holds
C22_Witness ==
  /\ dpc = "export"
  /\ ~PrimaryComplete(shell_env)
  /\ FallbackComplete(shell_env)
  /\ ~QueriedAz
  /\ ctx = Some([subscription_id |-> "sub-azure", tenant_id |-> "tenant-arm"])

\* ---- C24: which line an upsert rewrites ----

\* the line is not blank, not a comment, has an assignment operator, and
\* what stands before the first one is, trimmed, the key
IsAssignmentOf(line, key) ==
  LET body == Strip(line)
  IN  /\ body # <<>>
      /\ body[1] # "#"
      /\ \E j \in 1..Len(body) :
           /\ body[j] = "="
           /\ \A k \in 1..(j - 1) : body[k] # "="
           /\ Strip(SubSeq(body, 1, j - 1)) = key

\* the whitespace the line starts with
LeadingWhitespace(line) ==
  SubSeq(line, 1, Cardinality({j \in 1..Len(line) : \A k \in 1..j : line[k] \in Whitespace}))

\* C24: when a line of T assigns K, upsert(T,K,V) replaces the first such
\* line, from the top, by K = "V" behind that line's own leading whitespace,
\* and every other line it keeps is as it was, later assignments of K
\* included.
C24_FirstMatchRewritten ==
  \A i \in 1..Len(patches) :
    LET K == patches[i].key
        T == SplitLines(patches[i].before)
        R == SplitLines(After(i))
        hits == {j \in 1..Len(T) : IsAssignmentOf(T[j], K)}
    IN  hits # {} =>
          LET idx == CHOOSE j \in hits : \A k \in hits : j <= k
          IN  /\ Len(R) >= Len(T) - 1
              /\ \A j \in hits : j <= Len(R)
              /\ R[idx] = LeadingWhitespace(T[idx]) \o K \o <<" ", "=", " ", "\"">>
                             \o patches[i].value \o <<"\"">>
              /\ \A j \in 1..Len(R) : j # idx => R[j] = T[j]

\* T has two lines assigning K, the first of them indented: the first is
\* rewritten with its indentation, the second is as it was
C24_Witness ==
  \E i \in 1..Len(patches) :
    LET K == patches[i].key
        T == SplitLines(patches[i].before)
        R == SplitLines(After(i))
    IN  /\ Len(T) = 2
        /\ IsAssignmentOf(T[1], K) /\ IsAssignmentOf(T[2], K)
        /\ LeadingWhitespace(T[1]) = <<" ">>
        /\ Len(R) = 2
        /\ R[1] # T[1]
        /\ R[1][1] = " "
        /\ R[2] = T[2]
        /\ R[2] # LeadingWhitespace(T[2]) \o K \o <<" ", "=", " ", "\"">>
                     \o patches[i].value \o <<"\"">>

\* ---- C25: the delimiters in the set that is written back ----

\* the field delimiter and the entry delimiters _load_tokens splits on
FieldDelimiter == ":"
EntryDelimiters == {";", ",", NL}

DelimiterFree(c) ==
  \A i \in 1..Len(c) : c[i] # FieldDelimiter /\ c[i] \notin EntryDelimiters

\* C25 as stated: in every set that is written back no name and no value
\* holds the field delimiter or an entry delimiter, and the text written is
\* the set's entries in ascending order of their (unique) names.
C25_TokenSetInvariant ==
  \A i \in Writes :
    /\ \A n \in DOMAIN tokens : DelimiterFree(n) /\ DelimiterFree(tokens[n])
    /\ tcmds[i].value[1] = Serialize(tokens)
    /\ Ascending(tcmds[i].value[1])

\* the call loaded the entry v:x:y, whose value holds the field delimiter,
\* and wrote it back with the token it generated
C25_Witness ==
  /\ tpc = "done"
  /\ ReadSucceeded
  /\ Writes # {}
  /\ <<"v">> \in DOMAIN loaded
  /\ <<"v">> \in DOMAIN tokens
  /\ tokens[<<"v">>] = <<"x", ":", "y">>
  /\ Len(generated) = 1

\* ---- C27: a call that fails in generate or add writes nothing ----

\* the call ended with a ValueError of the generate loop or of the add loop
RejectedInput ==
  \/ FailedWith("TokenNameCollision")
  \/ FailedWith("InvalidTokenComponent")
  \/ FailedWith("InvalidTokenFormat")
  \/ FailedWith("EmptyTokenComponent")

\* C27: a call that fails with TokenNameCollision or InvalidTokenComponent
\* (or another rejection of a generate or add item) has issued no write, and
\* the stored secret changes only in the step that issues a successful
\* write, so such a call leaves the stored secret as it was.
C27_FailureAtomicity ==
  /\ [](RejectedInput => Writes = {} /\ tpc = "failed")
  /\ [][secret' # secret =>
          /\ tpc = "finish"
          /\ tcmds' = Append(tcmds, KvSet(secret'[1]))
          /\ texits' = Append(texits, 0)
          /\ tfailure' = Nothing]_vars

\* the second add item was rejected after the generate loop and the first
\* add item had changed the set in memory: nothing was written
C27_Witness ==
  /\ FailedWith("InvalidTokenComponent")
  /\ ReadSucceeded
  /\ Len(targs.add) = 2
  /\ Len(generated) = 2
  /\ tokens # loaded
  /\ <<"a">> \in DOMAIN tokens /\ tokens[<<"a">>] = <<"v">>
  /\ Writes = {}
  /\ secret # Nothing /\ ParseTokens(AzShowOutput(secret[1])) = loaded

\* ---- C28: the order of the steps of deploy_workload ----

\* the four state_* keys of the workload variable file
StateKeys(f) ==
  <<Recorded(f["workload"], "state_resource_group_name"),
    Recorded(f["workload"], "state_storage_account_name"),
    Recorded(f["workload"], "state_container_name"),
    Recorded(f["workload"], "state_blob_key")>>

\* the run ended at the check of the bootstrap state file or at a missing
\* bootstrap output
EndedUpstream ==
  /\ workflow = "workload"
  /\ dpc = "failed"
  /\ failure[1].error \in {"UpstreamNotBootstrapped", "MissingStackOutput"}

\* C28: a workload run reaches the check of the bootstrap state only after
\* it has seeded the variable file with the identity of the run, published
\* the image and recorded the registry and the image; a run that ends with
\* UpstreamNotBootstrapped or MissingStackOutput leaves the file in that
\* rewritten state; the four state_* keys change only in the step that
\* follows the reading of all four bootstrap outputs, to those outputs.
C28_WorkloadStepOrder ==
  /\ []((\/ EndedUpstream
         \/ workflow = "workload" /\ dpc \in {"load_state", "bs_init", "bs_output", "bs_map"}) =>
          /\ Published
          /\ LET lines == SplitLines(files["workload"][Target][1])
             IN  /\ Assigned(lines, "registry_login_server", <<bp.login_server[1]>>)
                 /\ Assigned(lines, "container_image", bp.full_image[1])
                 /\ Assigned(lines, "subscription_id", <<ctx[1].subscription_id>>)
                 /\ Assigned(lines, "tenant_id", <<ctx[1].tenant_id>>)
                 /\ Assigned(lines, "environment_code", <<Env>>))
  /\ [][(files' # files /\ StateKeys(files') # StateKeys(files)) =>
          /\ dpc = "update_tfvars"
          /\ outputs # Nothing
          /\ \A k \in OutputNames : outputs[1][k] = OutputValue[k]
          /\ StateKeys(files') = <<Some(<<"rg-state">>), Some(<<"sastate">>),
                                   Some(<<"tfstate">>), Some(<<"dev.tfstate">>)>>]_vars

\* the bootstrap stack lacks an output: the run ended with
\* MissingStackOutput after it published the image and rewrote the
\* variable file, which has no state_* key
C28_Witness ==
  /\ EndedUpstream
  /\ failure[1].error = "MissingStackOutput"
  /\ Published
  /\ Recorded(files["workload"], "container_image") = bp.full_image
  /\ StateKeys(files) = <<Nothing, Nothing, Nothing, Nothing>>


(***************************************************************************)
(* C26: the identity within one run                                        *)
(***************************************************************************)
\* the identities a run has resolved so far: the one deploy_bootstrap or
\* deploy_workload resolved, and the one build_and_push resolved
Resolved == (IF ctx = Nothing THEN {} ELSE {"script"}) \cup
            (IF bp.ctx = Nothing THEN {} ELSE {"build_and_push"})
NonEmptyIdentity(c) == c.subscription_id # "" /\ c.tenant_id # ""

\* C26: in one run the identity is resolved once, both of its fields are
\* non-empty, and every step has the same (subscription_id, tenant_id)
\* pair, whatever the environment held on entry and whatever the run
\* exported into it
C26_IdentityOnce ==
  /\ Cardinality(Resolved) <= 1
  /\ ctx # Nothing => NonEmptyIdentity(ctx[1])
  /\ bp.ctx # Nothing => NonEmptyIdentity(bp.ctx[1]) /\ bp.ctx = ctx

\* a workload run whose build step holds a pair that differs from the one
\* the script resolved and seeded the variable file with
C26_Witness ==
  /\ workflow = "workload"
  /\ ctx # Nothing /\ bp.ctx # Nothing /\ bp.ctx # ctx
  /\ Len(SelectSeq(cmds, LAMBDA c : c = AzAccountShow)) = 1
  /\ dpc = "done"

====
